---- MODULE Spec2Model ----
(***************************************************************************)
(* ESPFetch: bounded-concurrency asynchronous HTTP request engine.         *)
(*                                                                         *)
(* The model follows src/unnamed/part_001 (the engine implementation) and  *)
(* src/src/esp_fetch/fetch.h (its declarations).  Application threads      *)
(* ("callers") call init / deinit / get / post / getStream; every admitted *)
(* request runs on its own FreeRTOS task ("worker").  Each action is one   *)
(* step of a caller or of a worker that touches shared engine state at     *)
(* most once, so callers and workers interleave at the grain of the        *)
(* semaphore operations and of the atomic counter.                         *)
(*                                                                         *)
(* Environment of Spec: the FreeRTOS scheduler is running (application     *)
(* code of an ESP32 runs inside a task) and one application thread makes   *)
(* the calls, so init/deinit never overlap a submission made by another    *)
(* thread; the workers run concurrently with it.                           *)
(*                                                                         *)
(* call[c] is the engine call a caller is making, from its entry to its    *)
(* return to the application.  jobs is the multiset of request contexts:   *)
(* a context is what one submission puts on the heap, the FetchJob with    *)
(* its task and, for a synchronous call, the SyncHandle.  Heap objects     *)
(* have no identity beyond their contents, hence a multiset.               *)
(***************************************************************************)
EXTENDS Integers, Sequences, FiniteSets, Bags, TLC

(* ---------------- bounds of the model ---------------- *)
\* largest maxConcurrentRequests passed to init
MaxN == 1
\* number of request contexts that exist at the same time
MaxJobs == 2
\* largest finite maxBodyBytes / maxHeaderBytes given per call or in the config
MaxLimit == 2
\* number of body bytes the transport passes to the event handler in one exchange
MaxData == 3
\* number of header events the transport passes to the event handler in one exchange
MaxHeaders == 2

(* ---------------- program constants ---------------- *)
\* std::numeric_limits<size_t>::max(); the target's size_t has 32 bits, the
\* model's has 31 (the widest the model checker's integers allow)
SizeMax == 2147483647
\* FetchConfig::maxConcurrentRequests default
DefaultMaxConcurrent == 4
\* FetchConfig::stackSize default, 6144 * sizeof(StackType_t) with 1-byte StackType_t
DefaultStackSize == 6144

Callers == {"app"}

\* the public entry points (fetch.h:74-104); String overloads forward to these
AsyncOps == {"get", "post", "getStream"}
SyncOps == {"getSync", "postSync"}
Ops == AsyncOps \cup SyncOps

NullSem == [count |-> 0, max |-> 0]
NoDoc == [ok |-> FALSE, status |-> -1, error |-> "<no document>", full |-> FALSE]
\* SyncHandle (part_001:44-56): done is the count of its binary semaphore
NoHandle == [alloc |-> FALSE, done |-> 0, ready |-> FALSE, doc |-> NoDoc, refs |-> 0, freed |-> FALSE]

VARIABLES
    initialized,     \* ESPFetch::_initialized
    slotSemaphore,   \* ESPFetch::_slotSemaphore: NullSem or a counting semaphore
    activeTasks,     \* ESPFetch::_activeTasks (std::atomic<size_t>)
    config,          \* ESPFetch::_config (the fields the admission layer reads)
    schedulerState,  \* xTaskGetSchedulerState()
    pc,              \* caller -> position inside the engine call it is making
    call,            \* caller -> the call it is making: arguments and return value
    jobs,            \* the request contexts: FetchJob, task and SyncHandle
    semFault,        \* a semaphore primitive was applied to a null handle
    deinited,        \* deinit has returned and no init has succeeded since
    fetchJob,        \* one FetchJob with its response, as handleHttpEvent sees it
    exchange,        \* the transport exchange of that job, from its submission to its result
    client           \* the request as submitted, as its job keeps it, as runJob hands it to the transport

vars == <<initialized, slotSemaphore, activeTasks, config, schedulerState, pc, call, jobs,
          semFault, deinited, fetchJob, exchange, client>>

\* what no engine call changes: the environment, and the one job whose
\* exchange is followed event by event (SpecExchange), and the one request
\* followed to the transport's configuration (SpecClient)
envVars == <<schedulerState, fetchJob, exchange, client>>

(* ---------------- FreeRTOS primitives ---------------- *)
\* xSemaphoreCreateCounting(uxMaxCount, uxInitialCount)
SemCreateCounting(max, initial) == [count |-> initial, max |-> max]
\* a faulty take: it succeeds with no token left
SemCanTakeAlways(sem) == TRUE

\* xSemaphoreTake succeeds iff a token is available
SemCanTake(sem) == sem.count > 0
SemTake(sem) == [sem EXCEPT !.count = @ - 1]
\* xSemaphoreGive fails (queue full) and changes nothing when the count is at its maximum
SemGive(sem) == IF sem.count < sem.max THEN [sem EXCEPT !.count = @ + 1] ELSE sem

\* a faulty fetch_sub: the count is read and not written back
FetchSubStuck(x) == x

\* std::atomic<size_t>::fetch_add / fetch_sub wrap around at the ends of size_t
FetchAdd(x) == IF x = SizeMax THEN 0 ELSE x + 1
FetchSub(x) == IF x = 0 THEN SizeMax ELSE x - 1

(* ---------------- configuration ---------------- *)
\* FetchConfig default-constructed (fetch.h:36-49)
DefaultConfig ==
    [maxConcurrentRequests |-> DefaultMaxConcurrent, stackSize |-> DefaultStackSize, slotAcquireTicks |-> 0]

\* the FetchConfig values the callers pass to init: every concurrency limit
\* up to MaxN, and for the admitting ones a zero stack size or a positive
\* slot wait as well
Configs ==
    { cfg \in [maxConcurrentRequests : 0..MaxN, stackSize : {0, DefaultStackSize},
               slotAcquireTicks : {0, 1}] :
        /\ cfg.maxConcurrentRequests = 0 => cfg.stackSize # 0 /\ cfg.slotAcquireTicks = 0
        /\ cfg.stackSize # 0 \/ cfg.slotAcquireTicks = 0 }

\* a faulty init: no config is turned away
InitRejectsNothing(cfg) == FALSE

\* init's rejection test (part_001:92)
InitRejects(cfg) == cfg.maxConcurrentRequests = 0

\* a faulty init: a semaphore with one token more than configured
InitSemaphoreOneMore(cfg) ==
    SemCreateCounting(cfg.maxConcurrentRequests + 1, cfg.maxConcurrentRequests + 1)

\* the semaphore init creates (part_001:98)
InitSemaphore(cfg) == SemCreateCounting(cfg.maxConcurrentRequests, cfg.maxConcurrentRequests)

(* ---------------- result documents ---------------- *)
\* the error-shaped documents the synchronous entry points synthesize
ErrDoc(msg) == [ok |-> FALSE, status |-> -1, error |-> msg, full |-> FALSE]

\* a faulty synchronous post: the message of get copied over
StartFailedMessageOfGet(op) == "failed to start http get"

\* part_001:157, 212
StartFailedMessage(op) == IF op = "postSync" THEN "failed to start http post" ELSE "failed to start http get"

\* a faulty buildResult: ok looks at the transport error alone
BuildResultAnyStatus(err, status) ==
    [ok |-> err = "ESP_OK",
     status |-> status,
     error |-> IF err = "ESP_OK" THEN "null" ELSE err,
     full |-> TRUE]

\* buildResult (part_001:557-583): ok, status and error of the result document
BuildResult(err, status) ==
    [ok |-> (err = "ESP_OK" /\ status >= 200 /\ status < 400),
     status |-> status,
     error |-> IF err = "ESP_OK" THEN "null" ELSE err,
     full |-> TRUE]

\* what esp_http_client_perform can report back
TransportOutcomes ==
    { [error |-> "ESP_OK", status |-> 200],
      [error |-> "ESP_FAIL", status |-> 0] }

(* ---------------- calls and jobs ---------------- *)
IsSync(op) == op \in SyncOps
IsStream(op) == op = "getStream"

\* no call in progress; of a call: its arguments, its return value, and what
\* it found when it tested the engine state
NoCall ==
    [op |-> "none", cfg |-> DefaultConfig, wasInit |-> FALSE,
     nullArg |-> "none", hasCb |-> FALSE, waitForever |-> FALSE,
     ret |-> "none", doc |-> NoDoc,
     checked |-> FALSE, initAtCheck |-> FALSE, waited |-> FALSE]

\* a request context with no FetchJob built yet; of a FetchJob: the delivery
\* target (callback / onDone set, syncHandle set, isStream), the response,
\* and the bookkeeping of its admission slot and of its callback.  owner is
\* the caller whose call made the context, until that call returns.
NoJob ==
    [st |-> "nojob", owner |-> "none", isStream |-> FALSE, isSync |-> FALSE, hasCb |-> FALSE,
     respError |-> "ESP_OK", status |-> 0, took |-> FALSE, gives |-> 0, cbCalls |-> 0,
     handle |-> NoHandle]

\* FetchResponse default-constructed (part_001:34-42); body is a sequence of
\* bytes, headers a sequence of name / value pairs
NoResponse ==
    [error |-> "ESP_OK", statusCode |-> 0, body |-> <<>>, headers |-> <<>>,
     bodyTruncated |-> FALSE, headersTruncated |-> FALSE]

\* no FetchJob; of a FetchJob (part_001:58-81) what handleHttpEvent reads and writes
NoFetchJob ==
    [isStream |-> FALSE, bodyLimit |-> 0, headerLimit |-> 0, receivedBytes |-> 0,
     response |-> NoResponse]

\* StreamResult default-constructed (fetch.h:56-60)
NoStreamResult == [error |-> "ESP_OK", statusCode |-> 0, receivedBytes |-> 0]

\* no exchange; of an exchange: the arguments of the submission (stream or
\* buffered, the limits of FetchRequestOptions) and the limits of the
\* engine's FetchConfig; what the transport has passed to the event handler
\* so far (data: all body bytes, hdrs: all headers) and what the handler
\* returned last; the bytes the chunk callback was given; the result handed
\* to the completion callback
NoExchange ==
    [phase |-> "none", stream |-> FALSE,
     options |-> [maxBodyBytes |-> 0, maxHeaderBytes |-> 0],
     cfg |-> [maxBodyBytes |-> 0, maxHeaderBytes |-> 0],
     data |-> <<>>, hdrs |-> <<>>, ret |-> "ESP_OK", sunk |-> <<>>, refusedAt |-> 0,
     streamResult |-> NoStreamResult, result |-> NoDoc]

\* FetchRequestOptions default-constructed (fetch.h:26-34): the protocol options
DefaultRequestOptions ==
    [timeoutMs |-> 0, allowRedirects |-> TRUE, skipTlsCommonNameCheck |-> FALSE]

\* FetchConfig default-constructed (fetch.h:36-49): the protocol defaults
DefaultProtocolConfig ==
    [defaultTimeoutMs |-> 15000, followRedirects |-> TRUE, skipTlsCommonNameCheck |-> FALSE]

\* esp_http_client_config_t config = {} (part_001:488): the fields runJob sets
\* from the options
NoTransportConfig ==
    [timeout_ms |-> 0, disable_auto_redirect |-> FALSE, skip_cert_common_name_check |-> FALSE]

\* no request followed; of a request: the url and options arguments of the
\* submission, FetchJob::url and FetchJob::options, the protocol fields of
\* _config, and the esp_http_client_config_t of runJob
NoClient ==
    [at |-> "none", url |-> <<>>, jobUrl |-> <<>>, configUrl |-> <<>>,
     options |-> DefaultRequestOptions, jobOptions |-> DefaultRequestOptions,
     cfg |-> DefaultProtocolConfig, transport |-> NoTransportConfig]

Init ==
    /\ fetchJob = NoFetchJob
    /\ exchange = NoExchange
    /\ client = NoClient
    /\ initialized = FALSE
    /\ slotSemaphore = NullSem
    /\ activeTasks = 0
    /\ config = DefaultConfig
    /\ schedulerState = "running"
    /\ pc = [c \in Callers |-> "idle"]
    /\ call = [c \in Callers |-> NoCall]
    /\ jobs = EmptyBag
    /\ semFault = FALSE
    /\ deinited = FALSE

(* ---------------- lifecycle: init / deinit ---------------- *)
InCall(c) == pc[c] # "idle"
\* init/deinit start only while no other caller is inside the engine
LifecycleFree(c) == \A d \in Callers \ {c} : ~InCall(d)

\* a faulty init: an initialized engine is not torn down before the new
\* config is installed
InitCallNoTeardown(c) ==
    /\ pc[c] = "idle"
    /\ LifecycleFree(c)
    /\ call' = [call EXCEPT ![c] = [NoCall EXCEPT !.op = "init", !.wasInit = initialized,
                                                  !.ret = "pending"]]
    /\ pc' = [pc EXCEPT ![c] = "init_body"]
    /\ UNCHANGED <<initialized, slotSemaphore, activeTasks, config, envVars, jobs, semFault,
                   deinited>>

\* init, part_001:88-90: an initialized engine is torn down first; the config
\* argument is not read before the tear-down is over
InitCall(c) ==
    /\ pc[c] = "idle"
    /\ LifecycleFree(c)
    /\ call' = [call EXCEPT ![c] = [NoCall EXCEPT !.op = "init", !.wasInit = initialized,
                                                  !.ret = "pending"]]
    /\ IF initialized
          THEN /\ initialized' = FALSE
               /\ pc' = [pc EXCEPT ![c] = "deinit_poll"]
          ELSE /\ pc' = [pc EXCEPT ![c] = "init_body"]
               /\ UNCHANGED initialized
    /\ UNCHANGED <<slotSemaphore, activeTasks, config, envVars, jobs, semFault, deinited>>

\* deinit, part_001:109
DeinitCall(c) ==
    /\ pc[c] = "idle"
    /\ LifecycleFree(c)
    /\ call' = [call EXCEPT ![c] = [NoCall EXCEPT !.op = "deinit", !.wasInit = initialized,
                                                  !.ret = "pending"]]
    /\ initialized' = FALSE
    /\ pc' = [pc EXCEPT ![c] = "deinit_poll"]
    /\ UNCHANGED <<slotSemaphore, activeTasks, config, envVars, jobs, semFault, deinited>>

\* a faulty deinit: the drain loop is left without looking at the count
DrainLoopExitsAtOnce(active, sched) == TRUE

\* the drain loop's exit test, part_001:111-118; an iteration that finds jobs
\* active under a running scheduler is vTaskDelay and changes nothing
DrainLoopExits(active, sched) == active = 0 \/ sched = "not_started"

DeinitPoll(c) ==
    /\ pc[c] = "deinit_poll"
    /\ DrainLoopExits(activeTasks, schedulerState)
    /\ pc' = [pc EXCEPT ![c] = "deinit_store"]
    /\ UNCHANGED <<initialized, slotSemaphore, activeTasks, config, envVars, call, jobs,
                   semFault, deinited>>

\* part_001:119
DeinitStore(c) ==
    /\ pc[c] = "deinit_store"
    /\ activeTasks' = 0
    /\ pc' = [pc EXCEPT ![c] = "deinit_delete"]
    /\ UNCHANGED <<initialized, slotSemaphore, config, envVars, call, jobs, semFault, deinited>>

\* part_001:121-125, then the return of deinit (to init when init called it)
DeinitDelete(c) ==
    /\ pc[c] = "deinit_delete"
    /\ slotSemaphore' = NullSem
    /\ deinited' = TRUE
    /\ IF call[c].op = "init"
          THEN /\ pc' = [pc EXCEPT ![c] = "init_body"]
               /\ UNCHANGED call
          ELSE /\ pc' = [pc EXCEPT ![c] = "returned"]
               /\ call' = [call EXCEPT ![c].ret = "void"]
    /\ UNCHANGED <<initialized, activeTasks, config, envVars, jobs, semFault>>

\* init, part_001:92-106, called with the config cfg;
\* semOk: xSemaphoreCreateCounting did not run out of memory
InitBody(c, cfg, semOk) ==
    /\ pc[c] = "init_body"
    /\ pc' = [pc EXCEPT ![c] = "returned"]
    /\ IF InitRejects(cfg)
          THEN /\ semOk
               /\ call' = [call EXCEPT ![c].ret = "false", ![c].cfg = cfg]
               /\ UNCHANGED <<initialized, slotSemaphore, config, deinited>>
          ELSE /\ config' = cfg
               /\ IF semOk
                     THEN /\ slotSemaphore' = InitSemaphore(cfg)
                          /\ initialized' = TRUE
                          /\ deinited' = FALSE
                          /\ call' = [call EXCEPT ![c].ret = "true", ![c].cfg = cfg]
                     ELSE /\ slotSemaphore' = NullSem
                          /\ call' = [call EXCEPT ![c].ret = "false", ![c].cfg = cfg]
                          /\ UNCHANGED <<initialized, deinited>>
    /\ UNCHANGED <<activeTasks, envVars, jobs, semFault>>

Lifecycle ==
    \/ \E c \in Callers : InitCall(c)
    \/ \E c \in Callers : DeinitCall(c)
    \/ \E c \in Callers : DeinitPoll(c)
    \/ \E c \in Callers : DeinitStore(c)
    \/ \E c \in Callers : DeinitDelete(c)
    \/ \E c \in Callers, cfg \in Configs, semOk \in BOOLEAN : InitBody(c, cfg, semOk)

(* ---------------- request contexts ---------------- *)
\* the context of the submission caller c is making (none or one)
Mine(c) == {r \in BagToSet(jobs) : r.owner = c}
MyJob(c) == CHOOSE r \in Mine(c) : TRUE

\* the contexts after one of them changed from old to new / went away / was added
Swap(old, new) == (jobs (-) SetToBag({old})) (+) SetToBag({new})
Drop(old) == jobs (-) SetToBag({old})
Put(new) == jobs (+) SetToBag({new})

\* a faulty SyncHandle: ready is set from the start
FreshHandleReady == [alloc |-> TRUE, done |-> 0, ready |-> TRUE, doc |-> NoDoc, refs |-> 2, freed |-> FALSE]

\* a SyncHandle freshly made by a synchronous get/post (part_001:145-146); the
\* caller's shared_ptr and the copy passed to enqueueRequest hold it
FreshHandle == [alloc |-> TRUE, done |-> 0, ready |-> FALSE, doc |-> NoDoc, refs |-> 2, freed |-> FALSE]

\* ~SyncHandle (part_001:46-51): the stored document and the semaphore go away
FreedHandle == [NoHandle EXCEPT !.freed = TRUE]

\* a faulty SyncHandle: a sole owner, destroyed when the first holder lets go
DropRefFrees(h) == IF ~h.alloc THEN h ELSE FreedHandle

\* one shared_ptr<SyncHandle> goes away
DropRef(h) == IF ~h.alloc THEN h ELSE IF h.refs <= 1 THEN FreedHandle ELSE [h EXCEPT !.refs = @ - 1]

\* the handle of a synchronous call after a failed start: both references go away
AfterReject(h) == IF h.alloc THEN FreedHandle ELSE h

\* a faulty return: the job of a call that returns is taken for ended
JobLiveNever(job) == FALSE

\* the FetchJob or its task exists
JobLive(job) == job.st \notin {"nojob", "deleted", "exited"}

(* ---------------- submissions: get / post / getStream ---------------- *)
\* a faulty entry point: the URL is not tested
RejectsArgsSinkOnly(op, nullArg) == IsStream(op) /\ nullArg = "sink"

\* the null-argument test every entry point starts with (part_001:128, 139, 172, 191, 233)
RejectsArgs(op, nullArg) == nullArg = "url" \/ (IsStream(op) /\ nullArg = "sink")

\* the arguments the callers pass to an entry point: the synchronous calls
\* have no callback parameter, the asynchronous get/post are given a callback,
\* and getStream is called with and without the optional onDone (fetch.h:74-104)
CallArgs(op, nullArg, hasCb) ==
    /\ nullArg \in (IF IsStream(op) THEN {"none", "url", "sink"} ELSE {"none", "url"})
    /\ IsSync(op) => ~hasCb
    /\ op \in {"get", "post"} => hasCb

NewCall(op, nullArg, hasCb) ==
    [NoCall EXCEPT !.op = op, !.nullArg = nullArg, !.hasCb = hasCb, !.ret = "pending"]

\* the context a call starts with: of a synchronous call the SyncHandle
NewContext(c, op) ==
    [NoJob EXCEPT !.owner = c, !.handle = IF IsSync(op) THEN FreshHandle ELSE NoHandle]

\* entry of get/post/getStream up to the call of enqueueRequest/enqueueStreamRequest;
\* binOk: xSemaphoreCreateBinary of a synchronous call did not run out of memory
Call(c, op, nullArg, hasCb, binOk) ==
    /\ pc[c] = "idle"
    /\ CallArgs(op, nullArg, hasCb)
    /\ (IsSync(op) /\ ~RejectsArgs(op, nullArg)) \/ binOk
    /\ LET new == NewCall(op, nullArg, hasCb) IN
       IF RejectsArgs(op, nullArg)
          THEN /\ call' = [call EXCEPT ![c] =
                     [new EXCEPT !.ret = "false",
                                 !.doc = IF IsSync(op) THEN ErrDoc("url is null") ELSE NoDoc]]
               /\ pc' = [pc EXCEPT ![c] = "returned"]
               /\ UNCHANGED jobs
          ELSE IF ~binOk
          THEN /\ call' = [call EXCEPT ![c] =
                     [new EXCEPT !.ret = "false",
                                 !.doc = ErrDoc("failed to allocate sync semaphore")]]
               /\ pc' = [pc EXCEPT ![c] = "returned"]
               /\ UNCHANGED jobs
          ELSE /\ BagCardinality(jobs) < MaxJobs
               /\ call' = [call EXCEPT ![c] = new]
               /\ jobs' = Put(NewContext(c, op))
               /\ pc' = [pc EXCEPT ![c] = "enq_check"]
    /\ UNCHANGED <<initialized, slotSemaphore, activeTasks, config, envVars, semFault, deinited>>

\* the call returns to the application: its frame goes away, and with it what
\* is left of a context whose job was destroyed or has ended
Return(c) ==
    /\ pc[c] = "returned"
    /\ pc' = [pc EXCEPT ![c] = "idle"]
    /\ call' = [call EXCEPT ![c] = NoCall]
    /\ IF Mine(c) = {}
          THEN UNCHANGED jobs
          ELSE LET r == MyJob(c) IN
               jobs' = IF JobLive(r) THEN Swap(r, [r EXCEPT !.owner = "none"]) ELSE Drop(r)
    /\ UNCHANGED <<initialized, slotSemaphore, activeTasks, config, envVars, semFault, deinited>>

\* a faulty entry point: the false of enqueueRequest is passed on as true
RejectedAsTrue(cl) == [cl EXCEPT !.ret = "true"]

\* enqueueRequest/enqueueStreamRequest returned false: an asynchronous entry
\* point returns false, a synchronous one returns its "failed to start"
\* document (part_001:154-159, 209-214)
Rejected(cl) ==
    [cl EXCEPT !.ret = "false",
               !.doc = IF IsSync(cl.op) THEN ErrDoc(StartFailedMessage(cl.op)) ELSE NoDoc]

\* the FetchJob enqueueRequest/enqueueStreamRequest builds (part_001:262-269, 334-343);
\* the callback is moved into it
NewJob(r, cl) ==
    [r EXCEPT !.st = "built", !.isStream = IsStream(cl.op), !.isSync = IsSync(cl.op),
              !.hasCb = cl.hasCb, !.took = TRUE]

\* a faulty enqueue: the initialized flag is not looked at
EnqueueAdmitsAlways(init) == TRUE

\* the admission test on the engine state (part_001:252, 319)
EnqueueAdmits(init) == init

\* a faulty enqueue: the semaphore is looked at where the initialized flag
\* should be
EnqCheckLooksAtSemaphore(c) ==
    /\ pc[c] = "enq_check"
    /\ LET r == MyJob(c)
           cl == [call[c] EXCEPT !.checked = TRUE, !.initAtCheck = initialized]
       IN IF slotSemaphore # NullSem
             THEN /\ call' = [call EXCEPT ![c] = cl]
                  /\ pc' = [pc EXCEPT ![c] = "enq_take"]
                  /\ UNCHANGED jobs
             ELSE /\ call' = [call EXCEPT ![c] = Rejected(cl)]
                  /\ jobs' = Swap(r, [r EXCEPT !.handle = AfterReject(@)])
                  /\ pc' = [pc EXCEPT ![c] = "returned"]
    /\ UNCHANGED <<initialized, slotSemaphore, activeTasks, config, envVars, semFault, deinited>>

\* part_001:252-255, 319-327
EnqCheck(c) ==
    /\ pc[c] = "enq_check"
    /\ LET r == MyJob(c)
           cl == [call[c] EXCEPT !.checked = TRUE, !.initAtCheck = initialized]
       IN IF EnqueueAdmits(initialized)
             THEN /\ call' = [call EXCEPT ![c] = cl]
                  /\ pc' = [pc EXCEPT ![c] = "enq_take"]
                  /\ UNCHANGED jobs
             ELSE /\ call' = [call EXCEPT ![c] = Rejected(cl)]
                  /\ jobs' = Swap(r, [r EXCEPT !.handle = AfterReject(@)])
                  /\ pc' = [pc EXCEPT ![c] = "returned"]
    /\ UNCHANGED <<initialized, slotSemaphore, activeTasks, config, envVars, semFault, deinited>>

\* xSemaphoreTake(_slotSemaphore, _config.slotAcquireTicks), part_001:257-260, 329-332:
\* a free slot is taken; with no free slot the call fails at once under the
\* zero-wait policy, and otherwise blocks until a slot is given or the wait expires
EnqTake(c) ==
    /\ pc[c] = "enq_take"
    /\ LET r == MyJob(c) IN
       IF slotSemaphore = NullSem
          THEN /\ semFault' = TRUE
               /\ pc' = [pc EXCEPT ![c] = "fault"]
               /\ UNCHANGED <<slotSemaphore, call, jobs>>
          ELSE IF SemCanTake(slotSemaphore)
          THEN /\ slotSemaphore' = SemTake(slotSemaphore)
               /\ jobs' = Swap(r, NewJob(r, call[c]))
               /\ call' = [call EXCEPT ![c].hasCb = FALSE]
               /\ pc' = [pc EXCEPT ![c] = "enq_stack"]
               /\ UNCHANGED semFault
          ELSE /\ call' = [call EXCEPT ![c] = Rejected(@)]
               /\ jobs' = Swap(r, [r EXCEPT !.handle = AfterReject(@)])
               /\ pc' = [pc EXCEPT ![c] = "returned"]
               /\ UNCHANGED <<semFault, slotSemaphore>>
    /\ UNCHANGED <<initialized, activeTasks, config, envVars, deinited>>

\* a faulty enqueue: the stack size is not tested
StackInvalidNever(cfg) == FALSE

\* the stack-size test (part_001:286-291, 352-357)
StackInvalid(cfg) == cfg.stackSize = 0

\* part_001:286-293, 352-359: give the slot back on an invalid stack size, else
\* count the job; the give is not guarded against a null _slotSemaphore
EnqStack(c) ==
    /\ pc[c] = "enq_stack"
    /\ LET r == MyJob(c) IN
       IF StackInvalid(config)
          THEN IF slotSemaphore = NullSem
                  THEN /\ semFault' = TRUE
                       /\ pc' = [pc EXCEPT ![c] = "fault"]
                       /\ UNCHANGED <<slotSemaphore, activeTasks, call, jobs>>
                  ELSE /\ slotSemaphore' = SemGive(slotSemaphore)
                       /\ jobs' = Swap(r, [r EXCEPT !.st = "deleted", !.gives = @ + 1,
                                                    !.handle = AfterReject(@)])
                       /\ call' = [call EXCEPT ![c] = Rejected(@)]
                       /\ pc' = [pc EXCEPT ![c] = "returned"]
                       /\ UNCHANGED <<activeTasks, semFault>>
          ELSE /\ activeTasks' = FetchAdd(activeTasks)
               /\ pc' = [pc EXCEPT ![c] = "enq_spawn"]
               /\ UNCHANGED <<slotSemaphore, call, jobs, semFault>>
    /\ UNCHANGED <<initialized, config, envVars, deinited>>

\* xTaskCreatePinnedToCore, part_001:295-312, 361-378; created: it returned pdPASS;
\* on failure the count is taken back and the job, with its reference to the
\* SyncHandle, is deleted.  A synchronous call goes on to waitForResult with
\* its waitTicks argument, which nothing read before (waitForever: portMAX_DELAY)
EnqSpawn(c, created, waitForever) ==
    /\ pc[c] = "enq_spawn"
    /\ waitForever => created /\ IsSync(call[c].op)
    /\ LET r == MyJob(c) IN
       IF created
          THEN /\ jobs' = Swap(r, [r EXCEPT !.st = "spawned"])
               /\ call' = [call EXCEPT ![c].ret = "true", ![c].waitForever = waitForever]
               /\ pc' = [pc EXCEPT ![c] = IF IsSync(call[c].op) THEN "wait_take" ELSE "returned"]
               /\ UNCHANGED activeTasks
          ELSE /\ activeTasks' = FetchSub(activeTasks)
               /\ jobs' = Swap(r, [r EXCEPT !.st = "deleted", !.handle = DropRef(@)])
               /\ pc' = [pc EXCEPT ![c] = "enq_spawn_give"]
               /\ UNCHANGED call
    /\ UNCHANGED <<initialized, slotSemaphore, config, envVars, semFault, deinited>>

\* a faulty enqueue: after a failed xTaskCreatePinnedToCore the slot is kept
EnqSpawnKeepsSlot(c) ==
    /\ pc[c] = "enq_spawn_give"
    /\ LET r == MyJob(c) IN
       /\ jobs' = Swap(r, [r EXCEPT !.handle = AfterReject(@)])
       /\ call' = [call EXCEPT ![c] = Rejected(@)]
    /\ pc' = [pc EXCEPT ![c] = "returned"]
    /\ UNCHANGED <<initialized, slotSemaphore, activeTasks, config, envVars, semFault, deinited>>

\* part_001:309-310, 375-376; the give is not guarded against a null _slotSemaphore
EnqSpawnGive(c) ==
    /\ pc[c] = "enq_spawn_give"
    /\ LET r == MyJob(c) IN
       IF slotSemaphore = NullSem
          THEN /\ semFault' = TRUE
               /\ pc' = [pc EXCEPT ![c] = "fault"]
               /\ UNCHANGED <<slotSemaphore, call, jobs>>
          ELSE /\ slotSemaphore' = SemGive(slotSemaphore)
               /\ jobs' = Swap(r, [r EXCEPT !.gives = @ + 1, !.handle = AfterReject(@)])
               /\ call' = [call EXCEPT ![c] = Rejected(@)]
               /\ pc' = [pc EXCEPT ![c] = "returned"]
               /\ UNCHANGED semFault
    /\ UNCHANGED <<initialized, activeTasks, config, envVars, deinited>>

(* ---------------- the synchronous wait ---------------- *)
TimeoutDoc == ErrDoc("timeout waiting for fetch result")

\* xSemaphoreTake(handle->done, waitTicks), part_001:389: the signal is taken
\* when it was given; a finite wait can expire while it is not; waitTicks is
\* not read again
WaitTake(c) ==
    /\ pc[c] = "wait_take"
    /\ LET r == MyJob(c) IN
       \/ /\ r.handle.done = 1
          /\ jobs' = Swap(r, [r EXCEPT !.handle.done = 0])
       \/ /\ r.handle.done = 0
          /\ ~call[c].waitForever
          /\ UNCHANGED jobs
    /\ call' = [call EXCEPT ![c].waited = TRUE, ![c].waitForever = FALSE]
    /\ pc' = [pc EXCEPT ![c] = "wait_check"]
    /\ UNCHANGED <<initialized, slotSemaphore, activeTasks, config, envVars, semFault, deinited>>

\* a faulty waitForResult: a result stored while the take was timing out is
\* dropped (the completion signal is still pending, so the take had failed)
WaitResultDropsLate(h) == IF h.ready /\ h.done = 0 THEN h.doc ELSE TimeoutDoc

\* the document waitForResult returns (part_001:389-397): the stored one when
\* ready is set, whatever the take returned, else the timeout document
WaitResult(h) == IF h.ready THEN h.doc ELSE TimeoutDoc

\* part_001:389-397 and the return of the synchronous get/post
WaitCheck(c) ==
    /\ pc[c] = "wait_check"
    /\ LET r == MyJob(c) IN
       /\ call' = [call EXCEPT ![c].doc = WaitResult(r.handle)]
       /\ jobs' = Swap(r, [r EXCEPT !.handle = DropRef(@)])
    /\ pc' = [pc EXCEPT ![c] = "returned"]
    /\ UNCHANGED <<initialized, slotSemaphore, activeTasks, config, envVars, semFault, deinited>>

Submit ==
    \/ \E c \in Callers, op \in Ops, nullArg \in {"none", "url", "sink"},
          hasCb \in BOOLEAN, binOk \in BOOLEAN : Call(c, op, nullArg, hasCb, binOk)
    \/ \E c \in Callers : Return(c)
    \/ \E c \in Callers : EnqCheck(c)
    \/ \E c \in Callers : EnqTake(c)
    \/ \E c \in Callers : EnqStack(c)
    \/ \E c \in Callers, created \in BOOLEAN, waitForever \in BOOLEAN :
          EnqSpawn(c, created, waitForever)
    \/ \E c \in Callers : EnqSpawnGive(c)
    \/ \E c \in Callers : WaitTake(c)
    \/ \E c \in Callers : WaitCheck(c)

(* ---------------- the worker task: requestTask / runJob ---------------- *)
\* a created task runs once the scheduler does
WorkerRuns == schedulerState = "running"

\* the contexts whose task is at position st
At(st) == {r \in BagToSet(jobs) : r.st = st}

\* the transport error and status runJob ends up with (part_001:497-533):
\* ESP_ERR_NO_MEM when esp_http_client_init returns no client, else what
\* esp_http_client_perform reports, the status being read only on ESP_OK
ExchangeResult(clientOk, out) ==
    IF ~clientOk THEN [error |-> "ESP_ERR_NO_MEM", status |-> 0]
    ELSE IF out.error = "ESP_OK" THEN out
    ELSE [error |-> out.error, status |-> 0]

\* runJob from its start to the end of the transport exchange (part_001:486-535)
Exchange(r, clientOk, out) ==
    /\ WorkerRuns
    /\ r \in At("spawned")
    /\ clientOk \/ out.error = "ESP_OK"
    /\ LET x == ExchangeResult(clientOk, out) IN
       jobs' = Swap(r, [r EXCEPT !.st = "deliver", !.respError = x.error, !.status = x.status])
    /\ UNCHANGED <<initialized, slotSemaphore, activeTasks, config, envVars, pc, call, semFault,
                   deinited>>

\* a faulty delivery: the callback is invoked a second time
CallbackInvocationsTwice(hasCb) == IF hasCb THEN 2 ELSE 0

\* how often delivery invokes the completion callback of a job: onDone of a
\* stream (part_001:542-544), the callback of a get/post (part_001:589-591)
CallbackInvocations(hasCb) == IF hasCb THEN 1 ELSE 0

\* a faulty runJob: the admission slot is given back before the result is
\* built and delivered
DeliverAfterGive(r) ==
    /\ WorkerRuns
    /\ r \in At("deliver")
    /\ slotSemaphore' = SemGive(slotSemaphore)
    /\ jobs' = Swap(r, [r EXCEPT !.st = IF r.isSync THEN "deliver_ready" ELSE "release",
                                 !.respError = "ESP_OK", !.status = 0,
                                 !.gives = @ + 1,
                                 !.cbCalls = @ + CallbackInvocations(r.hasCb),
                                 !.handle.doc = IF r.isSync THEN BuildResult(r.respError, r.status)
                                                ELSE @])
    /\ UNCHANGED <<initialized, activeTasks, config, envVars, pc, call, semFault, deinited>>

\* part_001:537-548 with deliverResult 589-593: the callback is invoked, and
\* the result is stored into the SyncHandle of a synchronous call; nothing
\* reads the job's response after the result was built from it
Deliver(r) ==
    /\ WorkerRuns
    /\ r \in At("deliver")
    /\ jobs' = Swap(r, [r EXCEPT !.st = IF r.isSync THEN "deliver_ready" ELSE "release",
                                 !.respError = "ESP_OK", !.status = 0,
                                 !.cbCalls = @ + CallbackInvocations(r.hasCb),
                                 !.handle.doc = IF r.isSync THEN BuildResult(r.respError, r.status)
                                                ELSE @])
    /\ UNCHANGED <<initialized, slotSemaphore, activeTasks, config, envVars, pc, call, semFault,
                   deinited>>

\* a faulty delivery: the signal is given where ready should be set
DeliverReadyGives(r) ==
    /\ WorkerRuns
    /\ r \in At("deliver_ready")
    /\ jobs' = Swap(r, [r EXCEPT !.st = "deliver_give", !.handle.done = 1])
    /\ UNCHANGED <<initialized, slotSemaphore, activeTasks, config, envVars, pc, call, semFault,
                   deinited>>

\* part_001:594
DeliverReady(r) ==
    /\ WorkerRuns
    /\ r \in At("deliver_ready")
    /\ jobs' = Swap(r, [r EXCEPT !.st = "deliver_give", !.handle.ready = TRUE])
    /\ UNCHANGED <<initialized, slotSemaphore, activeTasks, config, envVars, pc, call, semFault,
                   deinited>>

\* a faulty delivery: the completion signal is not given
DeliverGiveForgets(r) ==
    /\ WorkerRuns
    /\ r \in At("deliver_give")
    /\ jobs' = Swap(r, [r EXCEPT !.st = "release"])
    /\ UNCHANGED <<initialized, slotSemaphore, activeTasks, config, envVars, pc, call, semFault,
                   deinited>>

\* part_001:595-597: xSemaphoreGive on the binary semaphore of the handle
DeliverGive(r) ==
    /\ WorkerRuns
    /\ r \in At("deliver_give")
    /\ jobs' = Swap(r, [r EXCEPT !.st = "release", !.handle.done = 1])
    /\ UNCHANGED <<initialized, slotSemaphore, activeTasks, config, envVars, pc, call, semFault,
                   deinited>>

\* a faulty runJob: the slot is given back once more than it was taken
RunJobGivesTwice(sem) == IF sem # NullSem THEN 2 ELSE 0

\* how often runJob gives the admission slot back (part_001:550-552)
RunJobGives(sem) == IF sem # NullSem THEN 1 ELSE 0

\* k times xSemaphoreGive
SemGiveTimes(sem, k) == IF k = 0 THEN sem ELSE IF k = 1 THEN SemGive(sem) ELSE SemGive(SemGive(sem))

\* a faulty runJob: the worker goes on to the decrement without giving the
\* admission slot back
ReleaseSlotForgets(r) ==
    /\ WorkerRuns
    /\ r \in At("release")
    /\ jobs' = Swap(r, [r EXCEPT !.st = "dec"])
    /\ UNCHANGED <<initialized, slotSemaphore, activeTasks, config, envVars, pc, call, semFault,
                   deinited>>

\* part_001:550-552
ReleaseSlot(r) ==
    /\ WorkerRuns
    /\ r \in At("release")
    /\ LET k == RunJobGives(slotSemaphore) IN
       /\ slotSemaphore' = SemGiveTimes(slotSemaphore, k)
       /\ jobs' = Swap(r, [r EXCEPT !.st = "dec", !.gives = @ + k])
    /\ UNCHANGED <<initialized, activeTasks, config, envVars, pc, call, semFault, deinited>>

\* part_001:554
DecActive(r) ==
    /\ WorkerRuns
    /\ r \in At("dec")
    /\ activeTasks' = FetchSub(activeTasks)
    /\ jobs' = Swap(r, [r EXCEPT !.st = "exit"])
    /\ UNCHANGED <<initialized, slotSemaphore, config, envVars, pc, call, semFault, deinited>>

\* runJob returns, the FetchJob with its reference to the SyncHandle is
\* destroyed, vTaskDelete(nullptr) (part_001:409-410, 555); what is left of the
\* context is kept for the call that made it, if that has not returned
TaskExit(r) ==
    /\ WorkerRuns
    /\ r \in At("exit")
    /\ jobs' = IF r.owner = "none" THEN Drop(r)
               ELSE Swap(r, [r EXCEPT !.st = "exited", !.handle = DropRef(@)])
    /\ UNCHANGED <<initialized, slotSemaphore, activeTasks, config, envVars, pc, call, semFault,
                   deinited>>

\* every context a worker can be running in
Contexts == BagToSet(jobs)

Worker ==
    \/ \E r \in Contexts, clientOk \in BOOLEAN, out \in TransportOutcomes : Exchange(r, clientOk, out)
    \/ \E r \in Contexts : Deliver(r)
    \/ \E r \in Contexts : DeliverReady(r)
    \/ \E r \in Contexts : DeliverGive(r)
    \/ \E r \in Contexts : ReleaseSlot(r)
    \/ \E r \in Contexts : DecActive(r)
    \/ \E r \in Contexts : TaskExit(r)

Next == Lifecycle \/ Submit \/ Worker

Spec == Init /\ [][Next]_vars

(* ---------------- bookkeeping used by the properties ---------------- *)
\* a job holds an admission slot: taken and not yet given back
HoldsSlot(r) == r.took /\ r.gives = 0

\* the number of jobs that hold an admission slot
Holding == BagCardinality([r \in {x \in BagToSet(jobs) : HoldsSlot(x)} |-> jobs[r]])

TypeOK ==
    /\ initialized \in BOOLEAN
    /\ activeTasks \in 0..SizeMax
    /\ slotSemaphore.count \in 0..MaxN
    /\ BagCardinality(jobs) <= MaxJobs
    /\ \A c \in Callers : Cardinality(Mine(c)) <= 1

(* ---------------- admission ---------------- *)
\* the submission of caller c has returned
Returned(c) == pc[c] = "returned" /\ call[c].op \in Ops

\* the submission of caller c has returned false because enqueueRequest /
\* enqueueStreamRequest found no free slot: it passed the initialized test and
\* no FetchJob was ever built for it
RejectedForSlot(c) ==
    /\ Returned(c) /\ call[c].ret = "false"
    /\ call[c].checked /\ call[c].initAtCheck
    /\ \E r \in Mine(c) : r.st = "nojob"

\* the concurrency limit in force: that of the config the semaphore was made for
SlotLimit == IF slotSemaphore = NullSem THEN 0 ELSE config.maxConcurrentRequests

\* C1: in every reachable state the jobs that have taken an admission slot and
\* have not given it back number at most N, the maxConcurrentRequests the
\* engine was initialized with (and none holds a slot of a deleted semaphore)
C1_OutstandingAtMostN == Holding <= SlotLimit

\* C1 at its limit: N jobs hold a slot and one more submission was turned away
C1_Witness ==
    /\ slotSemaphore # NullSem
    /\ Holding = config.maxConcurrentRequests
    /\ \E c \in Callers : RejectedForSlot(c)

\* the path of a context that took a slot has come to its end: the worker is
\* past its give (part_001:550-552), or the submit call that destroyed the
\* job has returned (part_001:286-291, 305-311)
PathEnded(r) ==
    \/ r.st \in {"dec", "exit", "exited"}
    \/ r.st = "deleted" /\ r.owner \in Callers /\ pc[r.owner] = "returned"

\* C2: every slot acquisition is followed by exactly one release: no context
\* gives without having taken, none gives twice, each has given once when its
\* path has ended, whatever the path was; the free slots and the slots held
\* add up to N, so the free-slot count never exceeds N
C2_ReleasedExactlyOnce ==
    /\ \A r \in BagToSet(jobs) :
          /\ r.gives <= (IF r.took THEN 1 ELSE 0)
          /\ r.took <=> r.st # "nojob"
          /\ PathEnded(r) => r.gives = 1
    /\ slotSemaphore.count <= SlotLimit
    /\ slotSemaphore # NullSem => slotSemaphore.count + Holding = config.maxConcurrentRequests

\* C2 on both kinds of path: a job destroyed inside the submit call and a job
\* a worker ran to its end, each with its one release, and every slot free again
C2_Witness ==
    /\ slotSemaphore # NullSem
    /\ slotSemaphore.count = config.maxConcurrentRequests
    /\ \E r \in BagToSet(jobs) : r.st \in {"dec", "exit"} /\ r.took /\ r.gives = 1
    /\ \E c \in Callers : Returned(c) /\ \E r \in Mine(c) : r.st = "deleted" /\ r.gives = 1

\* caller c takes the step of its submission that asks for a slot
AsksForSlot(c) == pc[c] = "enq_take" /\ pc'[c] # "enq_take"

\* C3: under the zero-wait policy, while N admitted jobs hold their slots, the
\* step of a further submission that asks for a slot makes the call return
\* false at once: no slot is taken, no FetchJob is built, no task is counted
\* or created, and no callback of that submission has been or can be invoked
\* (the call is over and has left no job behind)
C3_FullRejectsAtOnce ==
    [][\A c \in Callers :
          (AsksForSlot(c) /\ config.slotAcquireTicks = 0 /\ slotSemaphore # NullSem
              /\ Holding = config.maxConcurrentRequests)
          => /\ pc'[c] = "returned"
             /\ call'[c].ret = "false"
             /\ slotSemaphore' = slotSemaphore
             /\ activeTasks' = activeTasks
             /\ \A r \in BagToSet(jobs') : r.owner = c => r.st = "nojob" /\ r.cbCalls = 0]_vars

\* C3: a submission with a callback was turned away under the zero-wait
\* policy while N jobs held the N slots
C3_Witness ==
    /\ config.slotAcquireTicks = 0
    /\ slotSemaphore # NullSem
    /\ Holding = config.maxConcurrentRequests
    /\ \E c \in Callers : RejectedForSlot(c) /\ call[c].hasCb /\ call[c].op \in AsyncOps

(* ---------------- delivery ---------------- *)
\* the worker of a context is past the delivery of its result
Delivered(r) == r.st \in {"release", "dec", "exit", "exited"}

\* a task was created for the context: its submission returns true
Spawned(r) == r.st \notin {"nojob", "built", "deleted"}

\* C4: the completion callback of a job is invoked by its worker only, at the
\* delivery that follows the transport exchange, and once: a job with a
\* callback has had it invoked exactly once when its worker is past the
\* delivery and never before, a job without one never; an asynchronous
\* submission returns true exactly when a task was created for it, so the
\* callback of a submission that returned false is invoked zero times
C4_CallbackExactlyOnce ==
    /\ \A r \in BagToSet(jobs) :
          /\ r.cbCalls = (IF r.hasCb /\ Delivered(r) THEN 1 ELSE 0)
          /\ ~Spawned(r) => r.cbCalls = 0
    /\ \A c \in Callers :
          Returned(c) /\ call[c].op \in AsyncOps =>
             /\ call[c].ret \in {"true", "false"}
             /\ call[c].ret = "true" <=> \E r \in Mine(c) : Spawned(r)
             /\ call[c].ret = "false" => \A r \in Mine(c) : ~Spawned(r) /\ r.cbCalls = 0

\* C4: an asynchronous submission returned true and its callback has been
\* invoked once by the worker
C4_Witness ==
    \E c \in Callers :
       /\ Returned(c) /\ call[c].op \in AsyncOps /\ call[c].ret = "true"
       /\ \E r \in Mine(c) : r.hasCb /\ r.cbCalls = 1 /\ Delivered(r)

(* ---------------- lifecycle ---------------- *)
\* caller c is inside deinit (called by the application or by init)
InDeinit(c) == pc[c] \in {"deinit_poll", "deinit_store", "deinit_delete"}

\* deinit has left its drain loop
PastDrain(c) == pc[c] \in {"deinit_store", "deinit_delete"}

\* the call of deinit made by caller c has returned
DeinitReturned(c) == pc[c] = "returned" /\ call[c].op = "deinit"

\* the job of a context is done with the engine: its result is delivered,
\* its slot given back and the active count decremented
Drained(r) == r.st \in {"exit", "exited"} /\ r.gives = 1

\* caller c takes a step of deinit
DeinitStep(c) == (pc[c] = "idle" /\ pc'[c] = "deinit_poll") \/ (InDeinit(c) /\ pc'[c] # pc[c])

\* C5: with the scheduler running, deinit leaves its drain loop, deletes the
\* semaphore and returns only when every job admitted before has delivered
\* its result and given its slot back (no job is left between admission and
\* the decrement of the active count); and no step of deinit changes a job or
\* its task: the workers are left to end by themselves
C5_DeinitWaitsForJobs ==
    /\ [](\A c \in Callers :
            (PastDrain(c) \/ DeinitReturned(c) \/ slotSemaphore = NullSem) =>
               /\ \A r \in BagToSet(jobs) : r.took => (Drained(r) \/ r.st = "deleted")
               /\ Holding = 0)
    /\ [](\A c \in Callers : DeinitReturned(c) => slotSemaphore = NullSem /\ ~initialized)
    /\ [][\A c \in Callers : DeinitStep(c) => jobs' = jobs]_vars

\* C5: deinit of an initialized engine has returned, and a job admitted
\* before it is done, its task not yet gone
C5_Witness ==
    \E c \in Callers :
       /\ DeinitReturned(c) /\ call[c].wasInit
       /\ \E r \in BagToSet(jobs) : r.st = "exit" /\ r.gives = 1

\* the call of init made by caller c has returned
InitReturned(c) == pc[c] = "returned" /\ call[c].op = "init"

\* caller c is inside a submission that enqueueRequest / enqueueStreamRequest
\* let past its initialized test
Admitting(c) ==
    pc[c] \in {"enq_take", "enq_stack", "enq_spawn", "enq_spawn_give", "wait_take", "wait_check"}

\* the submission of caller c has returned a failure: false from the
\* asynchronous entry points, an error-shaped document from the synchronous ones
ReturnedFailure(c) ==
    /\ Returned(c)
    /\ call[c].ret = "false"
    /\ IsSync(call[c].op) => call[c].doc # NoDoc /\ ~call[c].doc.ok /\ ~call[c].doc.full

\* C6: when init has returned true the engine is initialized; from the return
\* of deinit until an init succeeds the engine is uninitialized, no submission
\* gets past the initialized test, and every submission that returns has failed
C6_InitializedFollowsLifecycle ==
    \A c \in Callers :
       /\ InitReturned(c) /\ call[c].ret = "true" => initialized
       /\ DeinitReturned(c) => ~initialized /\ deinited
       /\ deinited =>
             /\ ~initialized
             /\ ~Admitting(c)
             /\ Returned(c) => ReturnedFailure(c)

\* C6: after deinit has returned, a submission reached the initialized test
\* and failed
C6_Witness ==
    \E c \in Callers :
       /\ deinited
       /\ ReturnedFailure(c) /\ call[c].checked /\ call[c].nullArg = "none"

\* C7: when init called with maxConcurrentRequests = 0 has returned, it has
\* returned false, the engine is uninitialized and has no admission
\* semaphore, whether or not it was initialized when init was called
C7_ZeroConcurrencyRejected ==
    \A c \in Callers :
       InitReturned(c) /\ call[c].cfg.maxConcurrentRequests = 0 =>
          /\ call[c].ret = "false"
          /\ ~initialized
          /\ slotSemaphore = NullSem

\* C7: init with maxConcurrentRequests = 0 has returned on an engine that was
\* initialized when it was called
C7_Witness ==
    \E c \in Callers :
       /\ InitReturned(c) /\ call[c].cfg.maxConcurrentRequests = 0
       /\ call[c].wasInit
       /\ call[c].ret = "false"

(* ---------------- failed submissions ---------------- *)
\* caller c takes a step of an asynchronous submission: it enters get / post /
\* getStream, or goes on from the initialized test
AsyncSubmitStep(c) ==
    \/ pc[c] = "idle" /\ pc'[c] # "idle" /\ call'[c].op \in AsyncOps
    \/ pc[c] = "enq_check" /\ pc'[c] # "enq_check" /\ call[c].op \in AsyncOps

\* C8: on an uninitialized engine no step of an asynchronous submission takes
\* or gives a slot or changes the active-job count, the submission ends at the
\* initialized test at the latest, returning false, and it leaves no FetchJob
\* and no task behind, so that nothing can invoke its callback
C8_UninitializedAsyncFails ==
    [][\A c \in Callers :
          (AsyncSubmitStep(c) /\ ~initialized) =>
             /\ slotSemaphore' = slotSemaphore
             /\ activeTasks' = activeTasks
             /\ pc'[c] \in {"enq_check", "returned"}
             /\ pc'[c] = "returned" => call'[c].ret = "false"
             /\ \A r \in BagToSet(jobs') :
                   r.owner = c => r.st = "nojob" /\ ~r.took /\ r.gives = 0 /\ r.cbCalls = 0]_vars

\* C8: an asynchronous submission with a callback and a URL has returned false
\* at the initialized test of an uninitialized engine
C8_Witness ==
    \E c \in Callers :
       /\ Returned(c) /\ call[c].op \in AsyncOps /\ call[c].hasCb /\ call[c].nullArg = "none"
       /\ call[c].checked /\ ~call[c].initAtCheck
       /\ call[c].ret = "false"
       /\ ~initialized

\* the synchronous call of caller c has returned and was not started:
\* enqueueRequest was called for it and no task was created
SyncNotStarted(c) ==
    /\ Returned(c) /\ IsSync(call[c].op)
    /\ call[c].checked
    /\ \E r \in Mine(c) : ~Spawned(r)

\* C9: a synchronous get / post that could not be started (engine not
\* initialized, no slot, invalid stack size, task not created) has returned an
\* error-shaped document with ok = false and the message "failed to start http
\* get" / "failed to start http post", and has not waited on the completion
\* signal of its handle
C9_SyncStartFailure ==
    \A c \in Callers :
       SyncNotStarted(c) =>
          /\ call[c].doc.ok = FALSE
          /\ call[c].doc.error = (IF call[c].op = "getSync" THEN "failed to start http get"
                                                           ELSE "failed to start http post")
          /\ ~call[c].doc.full
          /\ ~call[c].waited

\* C9: a synchronous post on an initialized engine was not started
C9_Witness ==
    \E c \in Callers :
       /\ SyncNotStarted(c) /\ call[c].op = "postSync" /\ call[c].initAtCheck
       /\ call[c].doc.error = "failed to start http post"

\* caller c enters get / post / getStream with a null URL
NullUrlCall(c) ==
    pc[c] = "idle" /\ pc'[c] # "idle" /\ call'[c].op \in Ops /\ call'[c].nullArg = "url"

\* C10: a call with a null URL is over with the step that enters it, whatever
\* the engine state: a synchronous get / post has returned a document with
\* ok = false and the message "url is null", an asynchronous get / post /
\* getStream has returned false; the admission semaphore, the active-job count
\* and the contexts are as before: no slot taken, no SyncHandle with its
\* semaphore made, no FetchJob built, no task created
C10_NullUrlRejectedFirst ==
    [][\A c \in Callers :
          NullUrlCall(c) =>
             /\ pc'[c] = "returned"
             /\ call'[c].ret = "false"
             /\ ~call'[c].checked
             /\ IF IsSync(call'[c].op)
                   THEN /\ call'[c].doc.ok = FALSE
                        /\ call'[c].doc.error = "url is null"
                   ELSE call'[c].doc = NoDoc
             /\ UNCHANGED <<initialized, slotSemaphore, activeTasks, jobs>>]_vars

\* C10: a synchronous call with a null URL has returned "url is null" on an
\* initialized engine with a free slot
C10_Witness ==
    \E c \in Callers :
       /\ Returned(c) /\ IsSync(call[c].op) /\ call[c].nullArg = "url"
       /\ call[c].doc.error = "url is null"
       /\ initialized /\ slotSemaphore.count > 0

(* ---------------- the synchronous wait ---------------- *)
\* caller c takes the step of waitForResult that reads ready after the wait
\* (part_001:389-397) and returns
ChecksReady(c) == pc[c] = "wait_check" /\ pc'[c] = "returned"

\* C11: waitForResult never drops a completed result: at the step that reads
\* ready after the wait, wherever the worker's delivery stands, the call
\* returns the timeout document only if ready is false at that moment; if
\* ready is true it returns the stored document, which is the real result of
\* the job, whether the completion signal was taken or is still pending
C11_WaitNeverDropsResult ==
    [][\A c \in Callers :
          ChecksReady(c) =>
             LET h == MyJob(c).handle IN
             /\ call'[c].doc = TimeoutDoc => ~h.ready
             /\ ~h.ready => call'[c].doc = TimeoutDoc
             /\ h.ready => call'[c].doc = h.doc /\ h.doc.full /\ h.doc # TimeoutDoc]_vars

\* C11: a synchronous call has returned the real result although its take had
\* failed: the completion signal, given after the timeout, is still pending
C11_Witness ==
    \E c \in Callers :
       /\ Returned(c) /\ IsSync(call[c].op) /\ call[c].waited
       /\ call[c].doc.full
       /\ \E r \in Mine(c) : r.handle.alloc /\ r.handle.done = 1 /\ r.handle.ready

(* -------- waitForResult called again and again on a SyncHandle kept alive -------- *)
\* a faulty waitForResult: the stored document is returned only by the call
\* whose take got the completion signal
WaitForResultTakenOnly(h, took) ==
    IF ~h.alloc THEN ErrDoc("invalid sync handle")
    ELSE IF took /\ h.ready THEN h.doc
    ELSE TimeoutDoc

\* waitForResult (part_001:381-398), took being what xSemaphoreTake returned
WaitForResult(h, took) ==
    IF ~h.alloc THEN ErrDoc("invalid sync handle")
    ELSE IF took /\ h.ready THEN h.doc
    ELSE IF h.ready THEN h.doc
    ELSE TimeoutDoc

\* a call of waitForResult by the holder of the handle: waitTicks (finite or
\* portMAX_DELAY), what its take returned and the document it returned; for
\* the statements about it also whether ready was set when the call was
\* entered and whether an earlier call has taken the completion signal
KeptCall ==
    [op |-> "waitForResult", waitForever |-> FALSE, took |-> FALSE, doc |-> NoDoc,
     startedReady |-> FALSE, signalTaken |-> FALSE]

\* the state right after a synchronous get / post has created the task of its
\* job (part_001:295-312): one slot taken, one task counted, the handle
\* shared by the job and by its holder, who is about to wait on it
InitKept ==
    /\ initialized = TRUE
    /\ \E cfg \in Configs :
          /\ ~InitRejects(cfg) /\ ~StackInvalid(cfg)
          /\ config = cfg
          /\ slotSemaphore = SemTake(InitSemaphore(cfg))
    /\ activeTasks = FetchAdd(0)
    /\ schedulerState = "running"
    /\ pc = [c \in Callers |-> "kept_idle"]
    /\ call = [c \in Callers |-> KeptCall]
    /\ \E c \in Callers, op \in SyncOps :
          jobs = SetToBag({[NewJob(NewContext(c, op), NewCall(op, "none", FALSE))
                               EXCEPT !.st = "spawned"]})
    /\ semFault = FALSE
    /\ deinited = FALSE
    /\ fetchJob = NoFetchJob
    /\ exchange = NoExchange
    /\ client = NoClient

\* the holder calls waitForResult(handle, waitTicks)
KeptEnter(c, waitForever) ==
    /\ pc[c] \in {"kept_idle", "kept_returned"}
    /\ call' = [call EXCEPT ![c] =
          [@ EXCEPT !.waitForever = waitForever, !.took = FALSE, !.doc = NoDoc,
                    !.startedReady = MyJob(c).handle.ready,
                    !.signalTaken = @ \/ call[c].took]]
    /\ pc' = [pc EXCEPT ![c] = "kept_take"]
    /\ UNCHANGED <<initialized, slotSemaphore, activeTasks, config, envVars, jobs, semFault,
                   deinited>>

\* xSemaphoreTake(handle->done, waitTicks), part_001:389
KeptTake(c) ==
    /\ pc[c] = "kept_take"
    /\ LET r == MyJob(c) IN
       \/ /\ r.handle.done = 1
          /\ jobs' = Swap(r, [r EXCEPT !.handle.done = 0])
          /\ call' = [call EXCEPT ![c].took = TRUE]
       \/ /\ r.handle.done = 0
          /\ ~call[c].waitForever
          /\ UNCHANGED <<jobs, call>>
    /\ pc' = [pc EXCEPT ![c] = "kept_check"]
    /\ UNCHANGED <<initialized, slotSemaphore, activeTasks, config, envVars, semFault, deinited>>

\* part_001:389-397: ready is read and the document returned; the holder
\* keeps its reference to the handle
KeptCheck(c) ==
    /\ pc[c] = "kept_check"
    /\ call' = [call EXCEPT ![c].doc = WaitForResult(MyJob(c).handle, call[c].took)]
    /\ pc' = [pc EXCEPT ![c] = "kept_returned"]
    /\ UNCHANGED <<initialized, slotSemaphore, activeTasks, config, envVars, jobs, semFault,
                   deinited>>

KeptWaiter ==
    \/ \E c \in Callers, waitForever \in BOOLEAN : KeptEnter(c, waitForever)
    \/ \E c \in Callers : KeptTake(c)
    \/ \E c \in Callers : KeptCheck(c)

NextKept == KeptWaiter \/ Worker

SpecKept == InitKept /\ [][NextKept]_vars

\* C12: for a handle that is kept alive: a call of waitForResult that has
\* returned while the job is not completed (ready not set: its timeout
\* expired first) has returned the timeout document, and every call entered
\* after the job completed (ready set) has returned the stored real result,
\* whether its own take or the take of an earlier call got the signal
C12_RepeatedWaitReturnsResult ==
    \A c \in Callers :
       pc[c] = "kept_returned" =>
          LET h == MyJob(c).handle IN
          /\ h.alloc
          /\ ~h.ready => call[c].doc = TimeoutDoc /\ ~call[c].took
          /\ call[c].startedReady =>
                /\ call[c].doc = h.doc
                /\ h.doc.full
                /\ h.doc = BuildResult(IF h.doc.error = "null" THEN "ESP_OK" ELSE h.doc.error,
                                       h.doc.status)

\* C12: a call entered after the job completed has returned the real result
\* although an earlier call had consumed the signal and its own take failed
C12_Witness ==
    \E c \in Callers :
       /\ pc[c] = "kept_returned"
       /\ call[c].startedReady /\ call[c].signalTaken /\ ~call[c].took
       /\ call[c].doc.full

(* ---------------- a synchronous wait that timed out ---------------- *)
\* the FreeRTOS scheduler lets every created task run: a worker that can take
\* a step is not held up for ever
SpecFair == Spec /\ WF_vars(Worker)

\* the synchronous get / post of caller c has returned the timeout document
TimedOut(c) == Returned(c) /\ IsSync(call[c].op) /\ call[c].doc = TimeoutDoc

\* the worker of context r is through: slot given back once, active count
\* decremented, task ended, and the handle, which held the result, released
\* by the job as by the call before
WorkerThrough(r) == r.st = "exited" /\ r.took /\ r.gives = 1 /\ r.handle.freed

\* the handle of context r holds the real result of the job
ResultStored(r) == r.handle.alloc /\ r.handle.ready /\ r.handle.doc.full

\* the worker of context r has not given its slot back yet
BeforeRelease(r) == r.st \in {"spawned", "deliver", "deliver_ready", "deliver_give", "release"}

\* C13: a timeout of the synchronous wait does not cancel the job.  While the
\* call that returned the timeout document has not left yet, its job is still
\* there, and until the worker gives the slot back the slot stays occupied
\* and the task counted; the return of the call to the application leaves
\* the job, the semaphore and the count as they are; and the worker, given
\* its turn, runs the exchange to its end, stores the result in the handle,
\* gives the slot back exactly once and decrements the active count
C13_TimeoutDoesNotCancel ==
    /\ [](\A c \in Callers :
            TimedOut(c) =>
               /\ Cardinality(Mine(c)) = 1
               /\ LET r == MyJob(c) IN
                  /\ r.st \notin {"nojob", "built", "deleted"}
                  /\ r.took /\ r.gives <= 1
                  /\ BeforeRelease(r) => HoldsSlot(r) /\ activeTasks >= 1
                                         /\ slotSemaphore.count < config.maxConcurrentRequests
                  /\ r.st \in {"release", "dec", "exit"} => ResultStored(r)
                  /\ r.st \in {"dec", "exit"} => r.gives = 1
                  /\ r.st = "exited" => WorkerThrough(r))
    /\ [][\A c \in Callers :
            (TimedOut(c) /\ pc'[c] # pc[c]) =>
               /\ UNCHANGED <<slotSemaphore, activeTasks, initialized>>
               /\ LET r == MyJob(c) IN
                  jobs' = IF r.st = "exited" THEN Drop(r)
                          ELSE Swap(r, [r EXCEPT !.owner = "none"])]_vars
    /\ \A c \in Callers :
          TimedOut(c) ~> (pc[c] # "returned" \/ (Mine(c) # {} /\ WorkerThrough(MyJob(c))))

\* C13: the call returned the timeout document, and its job has since been
\* run to its end by the worker
C13_Witness ==
    \E c \in Callers : TimedOut(c) /\ Mine(c) # {} /\ WorkerThrough(MyJob(c))

(* ---------------- the SyncHandle is written once ---------------- *)
\* the positions of a context in the order runJob passes them; a job destroyed
\* inside its submit call comes last
StageOrder ==
    <<"nojob", "built", "spawned", "deliver", "deliver_ready", "deliver_give", "release",
      "dec", "exit", "exited", "deleted">>

\* the place of position st in that order
StageRank(st) == CHOOSE i \in DOMAIN StageOrder : StageOrder[i] = st

\* C14: for every SyncHandle, from its creation until its last reference is
\* dropped, and at every step, which turns at most one context (old, with a
\* copy less in the multiset) into another (new, with a copy more): the completion signal is given at most once (only by the give of
\* deliverResult, which a job passes once, after ready was set), the stored
\* document is written at most once (only by deliverResult, before ready is
\* set), and once ready is true it stays true and the document stays the same
C14_HandleWrittenOnce ==
    [][jobs' # jobs =>
          /\ \A r \in DOMAIN jobs' :
                /\ r.handle.done \in {0, 1}
                /\ r.handle.done = 1 => r.handle.ready
                /\ r.handle.ready => r.handle.alloc /\ r.handle.doc.full /\ r.isSync
                /\ r.handle.doc # NoDoc =>
                      r.st \notin {"nojob", "built", "spawned", "deliver", "deleted"}
          /\ \A old \in DOMAIN jobs :
                (old.handle # NoHandle /\ CopiesIn(old, jobs') < jobs[old]) =>
                   \A new \in DOMAIN jobs' :
                      (new # old /\ jobs'[new] > CopiesIn(new, jobs)) =>
                         /\ StageRank(new.st) >= StageRank(old.st)
                         /\ new.handle.done > old.handle.done =>
                               old.st = "deliver_give" /\ new.st = "release" /\ old.handle.ready
                         /\ (new.handle.doc # old.handle.doc /\ ~new.handle.freed) =>
                               /\ old.handle.doc = NoDoc /\ ~old.handle.ready
                               /\ old.st = "deliver" /\ new.st = "deliver_ready"
                         /\ old.handle.ready =>
                               \/ new.handle.freed
                               \/ new.handle.ready /\ new.handle.doc = old.handle.doc
                         /\ old.handle.freed => new.handle = old.handle]_vars

\* C14: the signal of a handle was given and taken, the worker and the call
\* are both still at work, and the handle holds its result, ready set
C14_Witness ==
    \E c \in Callers :
       /\ pc[c] = "wait_check"
       /\ \E r \in Mine(c) :
             /\ r.st \in {"release", "dec", "exit"}
             /\ r.handle.ready /\ r.handle.done = 0 /\ r.handle.doc.full

(* ---------------- one exchange, event by event ---------------- *)
\* the engine state, which the event handler does not touch
engineVars == <<initialized, slotSemaphore, activeTasks, config, schedulerState, pc, call, jobs,
                semFault, deinited>>

\* the values of a body byte
Bytes == {"a", "b"}

\* the byte strings of at most n bytes
BytesUpTo(n) == UNION {[1..k -> Bytes] : k \in 0..n}

\* the headers a server sends: name and value, of 2 and of 3 bytes together
HeaderKinds ==
    { [name |-> <<"A">>, value |-> <<"1">>],
      [name |-> <<"B">>, value |-> <<"2", "2">>] }

Min(a, b) == IF a < b THEN a ELSE b

\* a faulty merge: the config value is taken whenever it is set
MergeLimitConfigFirst(perCall, cfgValue) ==
    LET merged == IF cfgValue # 0 THEN cfgValue ELSE perCall IN
    IF merged = 0 THEN SizeMax ELSE merged

\* the limit of a job from the per-call and the config value (part_001:271-278, 347-350)
MergeLimit(perCall, cfgValue) ==
    LET merged == IF perCall # 0 THEN perCall ELSE cfgValue IN
    IF merged = 0 THEN SizeMax ELSE merged

\* a faulty stream limit: a stream is never limited
StreamBodyLimitNone(perCall) == SizeMax

\* the body limit of a streaming job (part_001:345-346)
StreamBodyLimit(perCall) == IF perCall # 0 THEN perCall ELSE SizeMax

\* a faulty job builder: a stream takes its body limit from the merge rule of
\* the buffered jobs, config value included
BuildJobMerged(stream, options, cfg) ==
    [NoFetchJob EXCEPT
        !.isStream = stream,
        !.bodyLimit = MergeLimit(options.maxBodyBytes, cfg.maxBodyBytes),
        !.headerLimit = MergeLimit(options.maxHeaderBytes, cfg.maxHeaderBytes)]

\* the limits and the mode of the FetchJob that enqueueRequest (part_001:262-278)
\* or enqueueStreamRequest (part_001:334-350) builds
BuildJob(stream, options, cfg) ==
    [NoFetchJob EXCEPT
        !.isStream = stream,
        !.bodyLimit = IF stream THEN StreamBodyLimit(options.maxBodyBytes)
                      ELSE MergeLimit(options.maxBodyBytes, cfg.maxBodyBytes),
        !.headerLimit = MergeLimit(options.maxHeaderBytes, cfg.maxHeaderBytes)]

\* a faulty accumulator: every byte of the chunk is copied
CopyLenAll(job, len) == len

\* buffered mode, part_001:446-447: how many bytes of a chunk of len bytes are copied
CopyLen(job, len) ==
    LET size == Len(job.response.body)
        available == IF size < job.bodyLimit THEN job.bodyLimit - size ELSE 0
    IN Min(available, len)

\* buffered mode, part_001:451-453: the bodyTruncated flag after a chunk
BodyTruncatedAfter(was, copyLen, len) == IF copyLen < len THEN TRUE ELSE was

\* a faulty accumulator: a chunk that does not fit fails the request as it
\* does in streaming mode
BufferedDataAborting(job, chunk) ==
    LET copyLen == CopyLen(job, Len(chunk)) IN
    [job |-> [job EXCEPT
                 !.response.body = @ \o SubSeq(chunk, 1, copyLen),
                 !.response.bodyTruncated = BodyTruncatedAfter(@, copyLen, Len(chunk)),
                 !.response.error = IF copyLen < Len(chunk) THEN "ESP_ERR_INVALID_SIZE" ELSE @],
     called |-> FALSE, sent |-> <<>>,
     ret |-> IF copyLen < Len(chunk) THEN "ESP_FAIL" ELSE "ESP_OK"]

\* HTTP_EVENT_ON_DATA in buffered mode (part_001:445-454): the job after the
\* event, whether the chunk callback was called and with which bytes, the
\* value returned
BufferedData(job, chunk) ==
    LET copyLen == CopyLen(job, Len(chunk)) IN
    [job |-> [job EXCEPT
                 !.response.body = @ \o SubSeq(chunk, 1, copyLen),
                 !.response.bodyTruncated = BodyTruncatedAfter(@, copyLen, Len(chunk))],
     called |-> FALSE, sent |-> <<>>, ret |-> "ESP_OK"]

\* a faulty stream handler: the whole chunk is counted, clipped or not
StreamDataCountsChunk(job, chunk) ==
    IF job.bodyLimit # SizeMax /\ job.receivedBytes >= job.bodyLimit
    THEN [job |-> [job EXCEPT !.response.error = "ESP_ERR_INVALID_SIZE"],
          called |-> FALSE, sent |-> <<>>, ret |-> "ESP_FAIL"]
    ELSE LET toSend == IF job.bodyLimit # SizeMax
                          THEN Min(Len(chunk), job.bodyLimit - job.receivedBytes)
                          ELSE Len(chunk)
         IN [job |-> [job EXCEPT
                         !.receivedBytes = IF toSend > 0 THEN @ + Len(chunk) ELSE @,
                         !.response.error = IF toSend < Len(chunk)
                                               THEN "ESP_ERR_INVALID_SIZE" ELSE @],
             called |-> toSend > 0,
             sent |-> SubSeq(chunk, 1, toSend),
             ret |-> IF toSend < Len(chunk) THEN "ESP_FAIL" ELSE "ESP_OK"]

\* HTTP_EVENT_ON_DATA in streaming mode (part_001:423-444); getStream refuses
\* a null chunk callback, so onChunk is set
StreamData(job, chunk) ==
    IF job.bodyLimit # SizeMax /\ job.receivedBytes >= job.bodyLimit
    THEN [job |-> [job EXCEPT !.response.error = "ESP_ERR_INVALID_SIZE"],
          called |-> FALSE, sent |-> <<>>, ret |-> "ESP_FAIL"]
    ELSE LET toSend == IF job.bodyLimit # SizeMax
                          THEN Min(Len(chunk), job.bodyLimit - job.receivedBytes)
                          ELSE Len(chunk)
         IN [job |-> [job EXCEPT
                         !.receivedBytes = IF toSend > 0 THEN @ + toSend ELSE @,
                         !.response.error = IF toSend < Len(chunk)
                                               THEN "ESP_ERR_INVALID_SIZE" ELSE @],
             called |-> toSend > 0,
             sent |-> SubSeq(chunk, 1, toSend),
             ret |-> IF toSend < Len(chunk) THEN "ESP_FAIL" ELSE "ESP_OK"]

\* a faulty handler: a stream is aborted as soon as it has reached its limit,
\* not when it goes beyond
HandleDataAbortsAtLimit(job, chunk) ==
    IF Len(chunk) = 0 THEN [job |-> job, called |-> FALSE, sent |-> <<>>, ret |-> "ESP_OK"]
    ELSE IF job.isStream
    THEN LET x == StreamData(job, chunk) IN
         IF job.bodyLimit # SizeMax /\ x.job.receivedBytes >= job.bodyLimit
         THEN [x EXCEPT !.ret = "ESP_FAIL", !.job.response.error = "ESP_ERR_INVALID_SIZE"]
         ELSE x
    ELSE BufferedData(job, chunk)

\* HTTP_EVENT_ON_DATA (part_001:420-457): an event without data changes nothing
HandleData(job, chunk) ==
    IF Len(chunk) = 0 THEN [job |-> job, called |-> FALSE, sent |-> <<>>, ret |-> "ESP_OK"]
    ELSE IF job.isStream THEN StreamData(job, chunk)
    ELSE BufferedData(job, chunk)

\* name.size() + value.size() of a header
HeaderCost(h) == Len(h.name) + Len(h.value)

\* the bytes of the captured headers (part_001:462-465)
RECURSIVE CapturedCost(_)
CapturedCost(headers) ==
    IF headers = <<>> THEN 0 ELSE HeaderCost(Head(headers)) + CapturedCost(Tail(headers))

\* a faulty accounting: the captured headers are not counted
ProjectedNewOnly(headers, h) == HeaderCost(h)

\* part_001:461-466: the cost of the captured headers with the new one
Projected(headers, h) == CapturedCost(headers) + HeaderCost(h)

\* HTTP_EVENT_ON_HEADER (part_001:459-473), key and value present
HandleHeader(job, h) ==
    IF Projected(job.response.headers, h) <= job.headerLimit
    THEN [job |-> [job EXCEPT !.response.headers = Append(@, h)], ret |-> "ESP_OK"]
    ELSE [job |-> [job EXCEPT !.response.headersTruncated = TRUE], ret |-> "ESP_OK"]

\* a request is submitted: streaming or buffered, with its per-call limits,
\* to an engine with its config limits
InitExchange ==
    /\ initialized = FALSE
    /\ slotSemaphore = NullSem
    /\ activeTasks = 0
    /\ config = DefaultConfig
    /\ schedulerState = "running"
    /\ pc = [c \in Callers |-> "idle"]
    /\ call = [c \in Callers |-> NoCall]
    /\ jobs = EmptyBag
    /\ semFault = FALSE
    /\ deinited = FALSE
    /\ fetchJob = NoFetchJob
    /\ client = NoClient
    /\ \E stream \in BOOLEAN, ob \in 0..MaxLimit, oh \in 0..MaxLimit,
          cb \in {0, MaxLimit}, ch \in {0, MaxLimit} :
          exchange = [NoExchange EXCEPT
                         !.phase = "submitted", !.stream = stream,
                         !.options = [maxBodyBytes |-> ob, maxHeaderBytes |-> oh],
                         !.cfg = [maxBodyBytes |-> cb, maxHeaderBytes |-> ch]]

\* enqueueRequest / enqueueStreamRequest builds the job (part_001:262-278, 334-350)
EnqueueJob ==
    /\ exchange.phase = "submitted"
    /\ fetchJob' = BuildJob(exchange.stream, exchange.options, exchange.cfg)
    /\ exchange' = [exchange EXCEPT !.phase = "perform"]
    /\ UNCHANGED <<engineVars, client>>

\* esp_http_client_perform passes body bytes to handleHttpEvent; whether it
\* goes on after the handler returned ESP_FAIL is the transport's affair.
\* goOn is what the application's callable returns when the handler calls it:
\* FetchChunkCallback is std::function<void(const void *, size_t)>
\* (fetch.h:62), which drops the value, so the handler never sees it;
\* refusedAt keeps the first call that returned false
OnDataSaid(chunk, goOn) ==
    /\ exchange.phase = "perform"
    /\ Len(exchange.data) + Len(chunk) <= MaxData
    /\ LET x == HandleData(fetchJob, chunk) IN
       /\ fetchJob' = x.job
       /\ exchange' = [exchange EXCEPT
                          !.data = @ \o chunk,
                          !.sunk = IF x.called THEN Append(@, x.sent) ELSE @,
                          !.refusedAt = IF x.called /\ ~goOn /\ @ = 0
                                           THEN Len(exchange.sunk) + 1 ELSE @,
                          !.ret = x.ret]
    /\ UNCHANGED <<engineVars, client>>

\* the same with a callable that returns nothing or true
OnData(chunk) == OnDataSaid(chunk, TRUE)

\* esp_http_client_perform passes a header to handleHttpEvent; without key or
\* value the handler leaves the job alone (part_001:460)
OnHeader(h, present) ==
    /\ exchange.phase = "perform"
    /\ Len(exchange.hdrs) < MaxHeaders
    /\ IF present
          THEN LET x == HandleHeader(fetchJob, h) IN
               /\ fetchJob' = x.job
               /\ exchange' = [exchange EXCEPT !.hdrs = Append(@, h), !.ret = x.ret]
          ELSE /\ exchange' = [exchange EXCEPT !.ret = "ESP_OK"]
               /\ UNCHANGED fetchJob
    /\ UNCHANGED <<engineVars, client>>

\* the status codes esp_http_client_get_status_code reports here: both
\* ends of the range buildResult calls ok, and their neighbours outside
Statuses == {199, 200, 399, 400}

\* what esp_http_client_perform returns and, when that is ESP_OK, the status
\* code read after it (part_001:528-531)
PerformOutcomes ==
    {[error |-> "ESP_OK", status |-> st] : st \in Statuses}
       \cup {[error |-> "ESP_FAIL", status |-> 0]}

\* esp_http_client_init returns no client (part_001:497-500): no exchange
\* takes place and the error of the response is ESP_ERR_NO_MEM
ClientInitFails ==
    /\ exchange.phase = "perform"
    /\ exchange.data = <<>> /\ exchange.hdrs = <<>>
    /\ fetchJob' = [fetchJob EXCEPT !.response.error = "ESP_ERR_NO_MEM"]
    /\ exchange' = [exchange EXCEPT !.phase = "performed"]
    /\ UNCHANGED <<engineVars, client>>

\* esp_http_client_perform returns: its value becomes the error of the
\* response, the status is read on ESP_OK (part_001:528-531)
PerformReturns(out) ==
    /\ exchange.phase = "perform"
    /\ fetchJob' = [fetchJob EXCEPT
                       !.response.error = out.error,
                       !.response.statusCode = IF out.error = "ESP_OK" THEN out.status ELSE @]
    /\ exchange' = [exchange EXCEPT !.phase = "performed"]
    /\ UNCHANGED <<engineVars, client>>

\* the result document of a buffered job (part_001:557-583): of its body and
\* headers only the truncation flags are followed
BuildFullResult(job) ==
    BuildResult(job.response.error, job.response.statusCode)
       @@ [body_truncated |-> job.response.bodyTruncated,
           headers_truncated |-> job.response.headersTruncated]

\* the result is built and handed over (part_001:537-548)
DeliverExchange ==
    /\ exchange.phase = "performed"
    /\ exchange' = IF fetchJob.isStream
          THEN [exchange EXCEPT
                   !.phase = "done",
                   !.streamResult = [error |-> fetchJob.response.error,
                                     statusCode |-> fetchJob.response.statusCode,
                                     receivedBytes |-> fetchJob.receivedBytes]]
          ELSE [exchange EXCEPT !.phase = "done", !.result = BuildFullResult(fetchJob)]
    /\ UNCHANGED <<fetchJob, engineVars, client>>

NextExchange ==
    \/ EnqueueJob
    \/ \E chunk \in BytesUpTo(MaxData) : OnData(chunk)
    \/ \E h \in HeaderKinds, present \in BOOLEAN : OnHeader(h, present)
    \/ ClientInitFails
    \/ \E out \in PerformOutcomes : PerformReturns(out)
    \/ DeliverExchange

SpecExchange == InitExchange /\ [][NextExchange]_vars

\* all the bytes the chunk callback was given, in order
RECURSIVE Flatten(_)
Flatten(chunks) == IF chunks = <<>> THEN <<>> ELSE Head(chunks) \o Flatten(Tail(chunks))

ExchangeTypeOK ==
    /\ exchange.phase \in {"submitted", "perform", "performed", "done"}
    /\ Len(exchange.data) <= MaxData
    /\ Len(exchange.hdrs) <= MaxHeaders
    /\ fetchJob.receivedBytes \in 0..MaxData

(* ---------------- streaming with a body limit ---------------- *)
\* a streaming job limited to K = options.maxBodyBytes bytes whose transport
\* has passed K + 1 bytes to the handler, in whatever chunks
OverLimitByOne ==
    /\ exchange.stream
    /\ exchange.options.maxBodyBytes # 0
    /\ Len(exchange.data) = exchange.options.maxBodyBytes + 1

\* C15, the part that the byte counts make up: for a getStream job with
\* maxBodyBytes = K the chunk callback never gets more than K bytes, and when
\* the transport has passed K + 1 bytes it has got exactly the first K, the
\* handler has marked the response with ESP_ERR_INVALID_SIZE, and the
\* StreamResult handed to onDone has receivedBytes = K
C15_StreamLimitBytes ==
    (exchange.stream /\ exchange.options.maxBodyBytes # 0 /\ exchange.phase # "submitted") =>
       /\ Len(Flatten(exchange.sunk)) <= exchange.options.maxBodyBytes
       /\ Flatten(exchange.sunk) = SubSeq(exchange.data, 1, Len(Flatten(exchange.sunk)))
       /\ fetchJob.receivedBytes = Len(Flatten(exchange.sunk))
       /\ OverLimitByOne =>
             /\ fetchJob.receivedBytes = exchange.options.maxBodyBytes
             /\ exchange.phase = "perform" => fetchJob.response.error = "ESP_ERR_INVALID_SIZE"
             /\ exchange.phase = "done" =>
                   exchange.streamResult.receivedBytes = exchange.options.maxBodyBytes

\* C15 as stated: for a getStream job with maxBodyBytes = K and a transport
\* that delivers K + 1 bytes, in any chunking, the chunk callback receives at
\* most K bytes in total, and the StreamResult passed to onDone has
\* receivedBytes = K and error = ESP_ERR_INVALID_SIZE
C15_StreamLimitResult ==
    (OverLimitByOne /\ exchange.phase = "done") =>
       /\ Len(Flatten(exchange.sunk)) <= exchange.options.maxBodyBytes
       /\ exchange.streamResult.receivedBytes = exchange.options.maxBodyBytes
       /\ exchange.streamResult.error = "ESP_ERR_INVALID_SIZE"

\* C15: the job was cut off at K bytes, the handler had answered ESP_FAIL and
\* marked the response, and onDone got the value esp_http_client_perform
\* returned instead: no error at all
C15_Witness ==
    /\ OverLimitByOne /\ exchange.phase = "done"
    /\ exchange.ret = "ESP_FAIL"
    /\ Len(exchange.sunk) = 1
    /\ exchange.streamResult.receivedBytes = exchange.options.maxBodyBytes
    /\ exchange.streamResult.error = "ESP_OK"

(* ---------------- buffered mode: body and headers within their limits ---------------- *)
\* the job is a buffered one and its exchange has begun
Buffered == ~exchange.stream /\ exchange.phase \in {"perform", "performed", "done"}

\* C16: in buffered mode, after any sequence of data events whose lengths sum
\* to T, the stored body is the first min(T, bodyLimit) bytes of the
\* concatenated data, and bodyTruncated, which the result document reports as
\* body_truncated, is true exactly when T > bodyLimit
C16_BufferedBodyPrefix ==
    Buffered =>
       LET T == Len(exchange.data) IN
       /\ fetchJob.response.body = SubSeq(exchange.data, 1, Min(T, fetchJob.bodyLimit))
       /\ fetchJob.response.bodyTruncated <=> T > fetchJob.bodyLimit
       /\ exchange.phase = "done" => (exchange.result.body_truncated <=> T > fetchJob.bodyLimit)
       /\ fetchJob.receivedBytes = 0 /\ exchange.sunk = <<>>

\* C16: a body longer than the limit was cut to the limit and reported as
\* truncated in the result document
C16_Witness ==
    /\ Buffered /\ exchange.phase = "done"
    /\ Len(exchange.data) = MaxData
    /\ fetchJob.bodyLimit = MaxLimit
    /\ fetchJob.response.body = SubSeq(exchange.data, 1, MaxLimit)
    /\ exchange.data[1] # exchange.data[2]
    /\ exchange.result.body_truncated

\* the step passes an event to the handler of a buffered job
BufferedEvent ==
    /\ ~exchange.stream
    /\ exchange.phase = "perform" /\ exchange'.phase = "perform"
    /\ <<exchange, fetchJob>>' # <<exchange, fetchJob>>

\* C17: truncation in buffered mode never aborts or fails the request: the
\* handler returns ESP_OK for every data and header event and never sets
\* response.error, whatever was cut or dropped; and bodyTruncated and
\* headersTruncated, once true, stay true to the end of the job and are what
\* the result document reports
C17_TruncationNeverAborts ==
    /\ [](Buffered /\ exchange.phase = "perform" =>
             exchange.ret = "ESP_OK" /\ fetchJob.response.error = "ESP_OK")
    /\ [][BufferedEvent =>
             /\ exchange'.ret = "ESP_OK"
             /\ fetchJob'.response.error = fetchJob.response.error]_vars
    /\ [][Buffered =>
             /\ fetchJob.response.bodyTruncated => fetchJob'.response.bodyTruncated
             /\ fetchJob.response.headersTruncated => fetchJob'.response.headersTruncated]_vars
    /\ [](Buffered /\ exchange.phase = "done" =>
             /\ exchange.result.body_truncated = fetchJob.response.bodyTruncated
             /\ exchange.result.headers_truncated = fetchJob.response.headersTruncated)

\* C17: body cut and every header dropped, events went on after the first
\* truncation, and the exchange ended with an ok result that reports both flags
C17_Witness ==
    /\ Buffered /\ exchange.phase = "done"
    /\ Len(exchange.data) - 1 > fetchJob.bodyLimit
    /\ Len(exchange.hdrs) = MaxHeaders /\ fetchJob.response.headers = <<>>
    /\ exchange.result.ok
    /\ exchange.result.body_truncated /\ exchange.result.headers_truncated

\* the step passes header h, key and value present, to the handler
HeaderEvent(h) == exchange.phase = "perform" /\ exchange'.hdrs = Append(exchange.hdrs, h)

\* C18: header accounting is exact: on each header event the header is
\* appended if and only if the name and value lengths of the headers captured
\* so far plus those of the new one come to at most headerLimit; else it is
\* dropped and headersTruncated is set.  So the captured headers never cost
\* more than headerLimit, and a header that fits is captured also after a
\* larger one was dropped
C18_HeaderAccountingExact ==
    /\ [](exchange.phase # "submitted" =>
             CapturedCost(fetchJob.response.headers) <= fetchJob.headerLimit)
    /\ [][\A h \in HeaderKinds :
             HeaderEvent(h) =>
                LET captured == fetchJob.response.headers
                    fits == CapturedCost(captured) + Len(h.name) + Len(h.value)
                               <= fetchJob.headerLimit
                IN /\ fits => /\ fetchJob'.response.headers = Append(captured, h)
                              /\ fetchJob'.response.headersTruncated
                                    = fetchJob.response.headersTruncated
                   /\ ~fits => /\ fetchJob'.response.headers = captured
                               /\ fetchJob'.response.headersTruncated
                   /\ fetchJob'.response.body = fetchJob.response.body
                   /\ fetchJob'.response.error = fetchJob.response.error]_vars

\* C18: the larger header came first and was dropped, the smaller one came
\* after it and was captured
C18_Witness ==
    /\ Len(exchange.hdrs) = 2
    /\ HeaderCost(exchange.hdrs[1]) > HeaderCost(exchange.hdrs[2])
    /\ HeaderCost(exchange.hdrs[2]) = fetchJob.headerLimit
    /\ fetchJob.response.headers = <<exchange.hdrs[2]>>
    /\ fetchJob.response.headersTruncated

(* ---------------- the limits of a job ---------------- *)
\* the job of the exchange has been built
JobBuilt == exchange.phase # "submitted"

C20_StreamBodyLimitMerged ==
    (JobBuilt /\ exchange.stream) =>
       fetchJob.bodyLimit =
          (IF exchange.options.maxBodyBytes # 0 THEN exchange.options.maxBodyBytes
           ELSE IF exchange.cfg.maxBodyBytes # 0 THEN exchange.cfg.maxBodyBytes
           ELSE SizeMax)

\* C20, amended: of a streaming job only the header limit follows the merge
\* rule; its body limit is the per-call maxBodyBytes when that is not 0 and
\* unlimited (SIZE_MAX) when it is, whatever the config's maxBodyBytes
C20_StreamBodyLimitPerCall ==
    (JobBuilt /\ exchange.stream) =>
       /\ fetchJob.isStream
       /\ fetchJob.bodyLimit =
             (IF exchange.options.maxBodyBytes # 0 THEN exchange.options.maxBodyBytes
              ELSE SizeMax)
       /\ fetchJob.headerLimit =
             (IF exchange.options.maxHeaderBytes # 0 THEN exchange.options.maxHeaderBytes
              ELSE IF exchange.cfg.maxHeaderBytes # 0 THEN exchange.cfg.maxHeaderBytes
              ELSE SizeMax)

\* C20: a stream submitted with maxBodyBytes = 0 to an engine whose config
\* limits the body has passed more than the config's limit to the chunk
\* callback, unhindered
C20_Witness ==
    /\ JobBuilt /\ exchange.stream
    /\ exchange.options.maxBodyBytes = 0 /\ exchange.cfg.maxBodyBytes = MaxLimit
    /\ fetchJob.bodyLimit = SizeMax
    /\ Len(exchange.data) > exchange.cfg.maxBodyBytes
    /\ Flatten(exchange.sunk) = exchange.data
    /\ exchange.phase = "perform" /\ fetchJob.response.error = "ESP_OK"

(* ---------------- streaming without a limit ---------------- *)
\* the bytes the chunk callback has been given so far
Sunk == Flatten(exchange.sunk)

\* C21: by default a streaming download is unlimited: a getStream job
\* submitted with maxBodyBytes = 0 passes every byte it receives to the chunk
\* callback, its handler never answers ESP_FAIL nor marks a size error, and
\* its StreamResult counts every byte, whatever the config's maxBodyBytes is;
\* a stream whose callback got fewer bytes than were received had a non-zero
\* per-call maxBodyBytes and got exactly that many
C21_StreamUnlimitedByDefault ==
    (JobBuilt /\ exchange.stream) =>
       /\ exchange.options.maxBodyBytes = 0 =>
             /\ Sunk = exchange.data
             /\ fetchJob.receivedBytes = Len(exchange.data)
             /\ exchange.ret = "ESP_OK"
             /\ fetchJob.response.error # "ESP_ERR_INVALID_SIZE"
             /\ exchange.phase = "done" =>
                   /\ exchange.streamResult.receivedBytes = Len(exchange.data)
                   /\ exchange.streamResult.error # "ESP_ERR_INVALID_SIZE"
       /\ Sunk # exchange.data =>
             /\ exchange.options.maxBodyBytes # 0
             /\ Len(Sunk) = exchange.options.maxBodyBytes
             /\ Len(exchange.data) > exchange.options.maxBodyBytes

\* C21: a stream submitted with maxBodyBytes = 0 under a config that limits
\* the body is through, and onDone got a StreamResult that counts more bytes
\* than the config's limit, all of them given to the chunk callback
C21_Witness ==
    /\ exchange.stream /\ exchange.phase = "done"
    /\ exchange.options.maxBodyBytes = 0 /\ exchange.cfg.maxBodyBytes = MaxLimit
    /\ Len(exchange.data) = MaxData
    /\ exchange.streamResult.receivedBytes = MaxData
    /\ exchange.streamResult.error = "ESP_OK"
    /\ Sunk = exchange.data

(* ---------------- the result document ---------------- *)
\* C22: in every result document of a buffered job, ok is true exactly when
\* the transport error is none (ESP_OK) and 200 <= status < 400; the error
\* field is null exactly when the transport error is none and otherwise the
\* object of that error's code and name; so ok = true implies error = null
C22_OkDerivedFromErrorAndStatus ==
    (Buffered /\ exchange.phase = "done") =>
       LET doc == exchange.result
           err == fetchJob.response.error
           status == fetchJob.response.statusCode
       IN /\ doc.full
          /\ doc.status = status
          /\ doc.ok <=> (err = "ESP_OK" /\ status \in {200, 399})
          /\ ~doc.ok <=> (err # "ESP_OK" \/ status \in {0, 199, 400})
          /\ doc.error = "null" <=> err = "ESP_OK"
          /\ err # "ESP_OK" => doc.error = err /\ doc.error \in {"ESP_FAIL", "ESP_ERR_NO_MEM"}
          /\ doc.ok => doc.error = "null"

\* C22: the transport succeeded with status 400, one past the range: the
\* document has ok = false beside error = null
C22_Witness ==
    /\ Buffered /\ exchange.phase = "done"
    /\ fetchJob.response.error = "ESP_OK" /\ fetchJob.response.statusCode = 400
    /\ ~exchange.result.ok /\ exchange.result.error = "null"
    /\ exchange.result.status = 400

(* ---------------- the URL of a request, from the call to the transport ---------------- *)
\* the longest URL followed, in characters after the scheme
MaxUrl == 5

Schemes == {"http", "https"}

\* what follows the scheme: ':' and '/' as themselves, "h" for a character
\* of the host or the path
UrlChars == {":", "/", "h"}

\* the url arguments: a scheme and up to MaxUrl characters, well-formed or not
Urls == {<<scheme>> \o rest : scheme \in Schemes, rest \in UNION {[1..k -> UrlChars] : k \in 0..MaxUrl}}

\* a request is submitted with its url
InitClient ==
    /\ initialized = FALSE
    /\ slotSemaphore = NullSem
    /\ activeTasks = 0
    /\ config = DefaultConfig
    /\ schedulerState = "running"
    /\ pc = [c \in Callers |-> "idle"]
    /\ call = [c \in Callers |-> NoCall]
    /\ jobs = EmptyBag
    /\ semFault = FALSE
    /\ deinited = FALSE
    /\ fetchJob = NoFetchJob
    /\ exchange = NoExchange
    /\ \E url \in Urls : client = [NoClient EXCEPT !.at = "submitted", !.url = url]

\* enqueueRequest / enqueueStreamRequest: job->url = url (part_001:264, 336),
\* the characters of the argument copied into the std::string of the job,
\* and job->options = options (part_001:267, 338)
EnqueueUrl ==
    /\ client.at = "submitted"
    /\ client' = [client EXCEPT !.at = "enqueued", !.jobUrl = client.url,
                                !.jobOptions = client.options]
    /\ UNCHANGED <<engineVars, fetchJob, exchange>>

\* a faulty runJob: redirects are followed when either side allows them
TransportConfigEitherRedirect(options, cfg) ==
    [timeout_ms |-> IF options.timeoutMs # 0 THEN options.timeoutMs ELSE cfg.defaultTimeoutMs,
     disable_auto_redirect |-> ~(options.allowRedirects \/ cfg.followRedirects),
     skip_cert_common_name_check |-> options.skipTlsCommonNameCheck \/ cfg.skipTlsCommonNameCheck]

\* runJob, part_001:491-495: the protocol fields of the transport's
\* configuration, from the options of the job and from _config
TransportConfig(options, cfg) ==
    [timeout_ms |-> IF options.timeoutMs # 0 THEN options.timeoutMs ELSE cfg.defaultTimeoutMs,
     disable_auto_redirect |-> ~(options.allowRedirects /\ cfg.followRedirects),
     skip_cert_common_name_check |-> options.skipTlsCommonNameCheck \/ cfg.skipTlsCommonNameCheck]

\* runJob: config.url = job->url.c_str() (part_001:489) and the protocol
\* fields (part_001:491-495), which esp_http_client_init is given (part_001:497)
ConfigureClient ==
    /\ client.at = "enqueued"
    /\ client' = [client EXCEPT !.at = "configured", !.configUrl = client.jobUrl,
                                !.transport = TransportConfig(client.jobOptions, client.cfg)]
    /\ UNCHANGED <<engineVars, fetchJob, exchange>>

NextClient == EnqueueUrl \/ ConfigureClient

SpecClient == InitClient /\ [][NextClient]_vars

\* the slashes a string begins with
RECURSIVE SlashRun(_)
SlashRun(str) == IF str # <<>> /\ Head(str) = "/" THEN 1 + SlashRun(Tail(str)) ELSE 0

\* the normal form of a url as the specification gives it: after the scheme
\* and its colon one slash, or three and more, become two, and a colon right
\* after them is dropped; any other url is left alone
Normalize(url) ==
    LET rest == Tail(url) IN
    IF rest # <<>> /\ Head(rest) = ":" /\ SlashRun(Tail(rest)) >= 1
    THEN LET after == SubSeq(rest, 2 + SlashRun(Tail(rest)), Len(rest))
             host == IF after # <<>> /\ Head(after) = ":" THEN Tail(after) ELSE after
         IN <<Head(url), ":", "/", "/">> \o host
    ELSE url

\* the url has reached the configuration of the transport
Configured == client.at = "configured"

\* C23 as stated: the URL handed to the transport is the normalized form of
\* the submitted URL: scheme:/host, scheme:///host and scheme://:host all
\* become scheme://host, for http and https, and a well-formed scheme://host
\* URL is passed unchanged
C23_UrlNormalized ==
    Configured =>
       /\ client.configUrl = Normalize(client.url)
       /\ \A scheme \in Schemes :
             /\ client.url \in { <<scheme, ":", "/", "h">>,
                                 <<scheme, ":", "/", "/", "/", "h">>,
                                 <<scheme, ":", "/", "/", ":", "h">> }
                   => client.configUrl = <<scheme, ":", "/", "/", "h">>
             /\ client.url = <<scheme, ":", "/", "/", "h">> => client.configUrl = client.url

\* C23, what the code does: the URL handed to the transport is the submitted
\* URL, character by character, well-formed or not
C23_UrlHandedAsSubmitted ==
    /\ client.at \in {"enqueued", "configured"} => client.jobUrl = client.url
    /\ Configured => client.configUrl = client.url

\* C23: a URL with a single slash after the scheme has reached the transport
\* with its single slash
C23_Witness ==
    /\ Configured
    /\ client.url = <<"https", ":", "/", "h">>
    /\ client.configUrl = <<"https", ":", "/", "h">>
    /\ Normalize(client.url) = <<"https", ":", "/", "/", "h">>

(* ---------------- a zero stack size ---------------- *)
\* the engine runs under a config whose stackSize is 0
ZeroStackInForce == initialized /\ config.stackSize = 0

\* C24 as stated: an invalid (zero) worker stack size is reported by init:
\* init with stackSize = 0 returns false and leaves the engine uninitialized,
\* so no submission ever meets a zero stack size
C24_ZeroStackRejectedByInit ==
    \A c \in Callers :
       /\ InitReturned(c) /\ call[c].cfg.stackSize = 0 =>
             call[c].ret = "false" /\ ~initialized
       /\ ~ZeroStackInForce

\* C24, amended: init does not look at the stack size: called with
\* stackSize = 0 and a non-zero concurrency limit it fails only when the
\* semaphore cannot be created, and otherwise returns true with the engine
\* initialized under that config.  It is every submission under that config
\* that fails: having taken a slot it gives the slot back and returns
\* failure, and no job is counted and no context spawned
C24_ZeroStackFailsSubmissions ==
    \A c \in Callers :
       /\ InitReturned(c) /\ call[c].cfg.stackSize = 0 =>
             /\ call[c].cfg.maxConcurrentRequests # 0
             /\ config = call[c].cfg
             /\ call[c].ret = "true" <=> initialized
             /\ call[c].ret = "true" <=> slotSemaphore # NullSem
       /\ ZeroStackInForce =>
             /\ activeTasks = 0
             /\ pc[c] \notin {"enq_spawn", "enq_spawn_give", "wait_take", "wait_check"}
             /\ slotSemaphore.count =
                   config.maxConcurrentRequests - (IF pc[c] = "enq_stack" THEN 1 ELSE 0)
             /\ Returned(c) => ReturnedFailure(c)
             /\ \A r \in BagToSet(jobs) :
                   /\ r.st \in {"nojob", "built", "deleted", "exit", "exited"}
                   /\ r.owner # "none" => r.st \in {"nojob", "built", "deleted"}

\* C24: init accepted a zero stack size, and a submission that had taken a
\* slot has given it back and returned failure
C24_Witness ==
    \E c \in Callers :
       /\ ZeroStackInForce
       /\ ReturnedFailure(c) /\ call[c].checked /\ call[c].initAtCheck
       /\ \E r \in Mine(c) : r.st = "deleted" /\ r.took /\ r.gives = 1
       /\ slotSemaphore.count = config.maxConcurrentRequests

(* ---------------- what the chunk callback returns ---------------- *)
\* a stream is submitted with its body limit, to follow what its chunk
\* callback returns
InitSink ==
    /\ initialized = FALSE
    /\ slotSemaphore = NullSem
    /\ activeTasks = 0
    /\ config = DefaultConfig
    /\ schedulerState = "running"
    /\ pc = [c \in Callers |-> "idle"]
    /\ call = [c \in Callers |-> NoCall]
    /\ jobs = EmptyBag
    /\ semFault = FALSE
    /\ deinited = FALSE
    /\ fetchJob = NoFetchJob
    /\ client = NoClient
    /\ \E ob \in 0..MaxLimit :
          exchange = [NoExchange EXCEPT
                         !.phase = "submitted", !.stream = TRUE, !.options.maxBodyBytes = ob]

NextSink ==
    \/ EnqueueJob
    \/ \E chunk \in BytesUpTo(MaxData), goOn \in BOOLEAN : OnDataSaid(chunk, goOn)
    \/ \E out \in PerformOutcomes : PerformReturns(out)
    \/ DeliverExchange

SpecSink == InitSink /\ [][NextSink]_vars

\* the chunk callback has returned false
Refused == exchange.refusedAt # 0

\* C25 as stated: the chunk callback of getStream controls the transfer:
\* once it has returned false no further chunk is delivered to it and the
\* job ends with an error
C25_SinkControlsTransfer ==
    (exchange.stream /\ Refused) =>
       /\ Len(exchange.sunk) = exchange.refusedAt
       /\ exchange.phase = "done" => exchange.streamResult.error # "ESP_OK"

\* C25: the callback returned false at its first chunk, got two more all the
\* same, and the job ended without an error
C25_Witness ==
    /\ exchange.stream /\ exchange.phase = "done"
    /\ exchange.refusedAt = 1 /\ Len(exchange.sunk) = 3
    /\ exchange.streamResult.error = "ESP_OK"
    /\ exchange.streamResult.receivedBytes = Len(exchange.data)

(* ---------------- what a failed submission leaves behind ---------------- *)
\* the context is counted in _activeTasks: from the fetch_add of the
\* submission (part_001:293, 359) to the fetch_sub of the failed task
\* creation (part_001:307, 373) or of its worker (part_001:554)
Counted(r) ==
    \/ r.st \in {"spawned", "deliver", "deliver_ready", "deliver_give", "release", "dec"}
    \/ r.st = "built" /\ r.owner \in Callers /\ pc[r.owner] = "enq_spawn"

\* the number of contexts counted in _activeTasks
CountedJobs == BagCardinality([r \in {x \in BagToSet(jobs) : Counted(x)} |-> jobs[r]])

\* the submission of caller c has returned false: get / post / getStream
\* themselves, or enqueueRequest to a synchronous get / post
SubmissionFailed(c) == Returned(c) /\ call[c].ret = "false"

\* C26: every submission that returns false (not initialized, null URL or
\* null sink, no slot within the wait policy, invalid stack size, context
\* creation failed) has no net effect: the slot it took, if any, is given
\* back and its job, if one was counted, is counted no more, so that the
\* free slots are the limit less the slots other jobs hold and the active
\* count is the number of other jobs counted; no job object of it is alive,
\* no context was spawned for it, and no callback of it was invoked
C26_FailedSubmissionLeavesNothing ==
    /\ slotSemaphore # NullSem => slotSemaphore.count + Holding = config.maxConcurrentRequests
    /\ activeTasks = CountedJobs
    /\ \A c \in Callers :
          SubmissionFailed(c) =>
             /\ call[c].nullArg # "none" \/ ~call[c].checked \/ ~call[c].initAtCheck =>
                   \A r \in Mine(c) : r.st = "nojob"
             /\ \A r \in Mine(c) :
                   /\ r.st \in {"nojob", "deleted"}
                   /\ ~HoldsSlot(r) /\ ~Counted(r) /\ ~JobLive(r)
                   /\ r.gives = (IF r.took THEN 1 ELSE 0)
                   /\ r.cbCalls = 0
                   /\ r.handle.alloc => r.handle.freed

\* C26: xTaskCreatePinnedToCore failed for a submission that had taken a
\* slot and had been counted; it has returned false with every slot free
\* again and no job counted
C26_Witness ==
    \E c \in Callers :
       /\ SubmissionFailed(c) /\ config.stackSize # 0
       /\ \E r \in Mine(c) : r.st = "deleted" /\ r.took /\ r.gives = 1
       /\ slotSemaphore.count = config.maxConcurrentRequests
       /\ activeTasks = 0

(* ---------------- the order of a worker's steps ---------------- *)
\* the result of the job has been delivered: its callback invoked, if it has
\* one, and for a synchronous job the document stored, ready set and the
\* signal given (and perhaps taken since)
ResultDelivered(r) ==
    /\ r.cbCalls = CallbackInvocations(r.hasCb)
    /\ r.isSync => r.handle.alloc /\ r.handle.ready /\ r.handle.doc.full

\* nothing of the delivery has happened
Undelivered(r) ==
    /\ r.cbCalls = 0
    /\ r.isSync => r.handle.alloc /\ ~r.handle.ready /\ r.handle.done = 0 /\ r.handle.doc = NoDoc

\* C27: each worker context performs its one job in the order: transport
\* exchange, result building and delivery (callback or sync signal), release
\* of the admission slot, decrement of the active count, termination.  At
\* every position of the worker what comes before it has happened, once, and
\* what comes after it has not: up to the release the job holds its slot and
\* is counted, so the slot is never released before the result was
\* delivered; at the decrement the slot has been released and the job is
\* still counted; a terminating worker has done all of it
C27_WorkerStepsInOrder ==
    \A r \in BagToSet(jobs) :
       /\ r.st \in {"spawned", "deliver"} =>
             Undelivered(r) /\ HoldsSlot(r) /\ Counted(r) /\ activeTasks >= 1
       /\ r.st = "spawned" => r.respError = "ESP_OK" /\ r.status = 0
       /\ r.st = "deliver_ready" =>
             /\ r.isSync /\ r.handle.doc.full /\ ~r.handle.ready /\ r.handle.done = 0
             /\ HoldsSlot(r) /\ activeTasks >= 1
       /\ r.st = "deliver_give" =>
             /\ r.isSync /\ r.handle.doc.full /\ r.handle.ready /\ r.handle.done = 0
             /\ HoldsSlot(r) /\ activeTasks >= 1
       /\ r.st = "release" => ResultDelivered(r) /\ HoldsSlot(r) /\ Counted(r) /\ activeTasks >= 1
       /\ r.st = "dec" =>
             ResultDelivered(r) /\ r.took /\ r.gives = 1 /\ Counted(r) /\ activeTasks >= 1
       /\ r.st = "exit" => ResultDelivered(r) /\ r.took /\ r.gives = 1 /\ ~Counted(r)
       /\ r.st = "exited" =>
             r.cbCalls = CallbackInvocations(r.hasCb) /\ r.took /\ r.gives = 1 /\ ~Counted(r)

\* C27: a worker has delivered to its callback and released its slot, and
\* has not yet decremented the active count
C27_Witness ==
    \E r \in BagToSet(jobs) :
       /\ r.st = "dec" /\ r.hasCb /\ r.cbCalls = 1
       /\ r.gives = 1 /\ slotSemaphore.count = config.maxConcurrentRequests
       /\ activeTasks = 1

(* ---------------- the bytes a stream gives to its chunk callback ---------------- *)
\* the step passes a data event with data to the handler of a streaming job
StreamDataEvent ==
    /\ exchange.stream
    /\ exchange.phase = "perform" /\ exchange'.phase = "perform"
    /\ exchange'.data # exchange.data

\* C28: in a streaming job, after any sequence of data events, also events
\* that come after the handler has signalled abort: receivedBytes is the sum
\* of the sizes passed to the chunk callback and never exceeds bodyLimit; no
\* call of the callback passes 0 bytes; and at each data event the callback
\* gets exactly the first min(chunk size, bodyLimit - receivedBytes) bytes of
\* the chunk, in one call, or is not called when that is 0
C28_SinkGetsWhatIsCounted ==
    /\ []((exchange.stream /\ JobBuilt) =>
             /\ fetchJob.receivedBytes = Len(Sunk)
             /\ fetchJob.receivedBytes <= fetchJob.bodyLimit
             /\ \A i \in DOMAIN exchange.sunk : Len(exchange.sunk[i]) > 0
             /\ Sunk = SubSeq(exchange.data, 1, Len(Sunk)))
    /\ [][StreamDataEvent =>
             LET before == Len(exchange.data)
                 size == Len(exchange'.data) - before
                 toSend == Min(size, fetchJob.bodyLimit - fetchJob.receivedBytes)
             IN /\ fetchJob'.receivedBytes = fetchJob.receivedBytes + toSend
                /\ toSend > 0 =>
                      exchange'.sunk = Append(exchange.sunk,
                                              SubSeq(exchange'.data, before + 1, before + toSend))
                /\ toSend = 0 => exchange'.sunk = exchange.sunk]_vars

\* C28: a stream limited to one byte was passed three; its callback was
\* called once, with the first byte, and the handler answered the last event
\* with ESP_FAIL
C28_Witness ==
    /\ exchange.stream /\ exchange.phase = "perform"
    /\ fetchJob.bodyLimit = 1 /\ Len(exchange.data) = 3
    /\ exchange.sunk = <<SubSeq(exchange.data, 1, 1)>>
    /\ fetchJob.receivedBytes = 1
    /\ exchange.ret = "ESP_FAIL"

(* ---------------- when a stream is aborted ---------------- *)
\* C29: in a streaming job with a finite limit K the handler signals abort
\* (returns ESP_FAIL and marks the response ESP_ERR_INVALID_SIZE) on a data
\* event exactly when the chunk of the event had to be clipped or
\* receivedBytes was K already when it arrived; on any other data event it
\* returns ESP_OK and leaves the error alone.  So a stream whose total is
\* exactly K bytes is delivered whole with no abort and no size error, and a
\* stream with no limit is never aborted
C29_AbortExactlyBeyondLimit ==
    /\ [][StreamDataEvent =>
             LET K == fetchJob.bodyLimit
                 size == Len(exchange'.data) - Len(exchange.data)
                 full == K # SizeMax /\ fetchJob.receivedBytes = K
                 clipped == K # SizeMax /\ fetchJob.receivedBytes < K
                               /\ size > K - fetchJob.receivedBytes
                 aborts == exchange'.ret = "ESP_FAIL"
             IN /\ aborts <=> (full \/ clipped)
                /\ aborts => fetchJob'.response.error = "ESP_ERR_INVALID_SIZE"
                /\ ~aborts => /\ exchange'.ret = "ESP_OK"
                              /\ fetchJob'.response.error = fetchJob.response.error]_vars
    /\ []((exchange.stream /\ exchange.phase = "perform") =>
             /\ Len(exchange.data) <= fetchJob.bodyLimit =>
                   /\ Sunk = exchange.data
                   /\ exchange.ret = "ESP_OK"
                   /\ fetchJob.response.error = "ESP_OK"
             /\ fetchJob.response.error = "ESP_ERR_INVALID_SIZE" <=>
                   Len(exchange.data) > fetchJob.bodyLimit)

\* C29: a stream limited to MaxLimit bytes was passed exactly that many in
\* more than one event, its callback got them all, and it ended without error
C29_Witness ==
    /\ exchange.stream /\ exchange.phase = "done"
    /\ fetchJob.bodyLimit = MaxLimit /\ Len(exchange.data) = MaxLimit
    /\ Len(exchange.sunk) = MaxLimit /\ Sunk = exchange.data
    /\ exchange.ret = "ESP_OK"
    /\ exchange.streamResult.error = "ESP_OK"
    /\ exchange.streamResult.receivedBytes = MaxLimit

(* ---------------- the order of the delivery to a SyncHandle ---------------- *)
\* the documents buildResult can make of what a transport exchange ends with
FinalDocs ==
    {BuildResult(x.error, x.status) :
        x \in {ExchangeResult(clientOk, out) : clientOk \in BOOLEAN, out \in TransportOutcomes}}

\* C30: delivery to a SyncHandle is in the order: store the result, set
\* ready, give the signal.  So in every reachable state of a live handle a
\* given signal implies ready, and ready implies that the stored document is
\* the complete final result; a document stored while ready is still false
\* is seen only between the first and the second of these steps; and what a
\* waiter has read from the handle is the timeout document or a complete
\* final result, never a document in the making
C30_StoreReadyGive ==
    /\ \A r \in BagToSet(jobs) :
          (r.handle.alloc /\ ~r.handle.freed) =>
             /\ r.handle.done = 1 => r.handle.ready /\ r.st \in {"release", "dec", "exit", "exited"}
             /\ r.handle.ready => r.handle.doc \in FinalDocs /\ r.handle.doc.full
             /\ r.handle.ready => r.st \in {"deliver_give", "release", "dec", "exit", "exited"}
             /\ (r.handle.doc # NoDoc /\ ~r.handle.ready) =>
                   r.st = "deliver_ready" /\ r.handle.doc \in FinalDocs /\ r.handle.done = 0
             /\ r.handle.doc = NoDoc => ~r.handle.ready /\ r.handle.done = 0
    /\ \A c \in Callers :
          (Returned(c) /\ IsSync(call[c].op) /\ call[c].ret = "true") =>
             \/ call[c].doc = TimeoutDoc
             \/ call[c].doc \in FinalDocs /\ call[c].doc.full

\* C30: the worker has given the signal of a handle whose waiter, waiting
\* without limit, has not yet taken it; ready is set and the result stored
C30_Witness ==
    \E c \in Callers :
       /\ pc[c] = "wait_take" /\ call[c].waitForever
       /\ \E r \in Mine(c) :
             /\ r.handle.done = 1 /\ r.handle.ready
             /\ r.handle.doc \in FinalDocs /\ r.handle.doc.ok
             /\ r.st = "release"

(* ---------------- the lifetime of a SyncHandle ---------------- *)
\* the synchronous call that made context r still has its shared_ptr: from
\* make_shared (part_001:145) to the return of get / post
CallerHolds(r) ==
    /\ r.owner \in Callers
    /\ pc[r.owner] \in {"enq_check", "enq_take", "enq_stack", "enq_spawn", "enq_spawn_give",
                        "wait_take", "wait_check"}

\* the copy passed to enqueueRequest is alive: as the parameter syncHandle
\* until the job is built (part_001:250, 269), then as FetchJob::syncHandle
\* until the job is destroyed (part_001:290, 308, 409-410)
JobHolds(r) ==
    \/ r.st = "nojob" /\ r.owner \in Callers /\ pc[r.owner] \in {"enq_check", "enq_take"}
    \/ r.st \in {"built", "spawned", "deliver", "deliver_ready", "deliver_give", "release",
                 "dec", "exit"}

\* the number of shared_ptr<SyncHandle> that point to the handle of context r
Holders(r) == (IF CallerHolds(r) THEN 1 ELSE 0) + (IF JobHolds(r) THEN 1 ELSE 0)

\* C31: a SyncHandle and its semaphore stay allocated as long as the
\* submitting caller or the job holds a reference, and no longer: the handle
\* is allocated exactly while one of the two holds it, its reference count is
\* the number of holders, and it is destroyed when both have let go (at once
\* when the submission failed and no job was created).  So a worker that
\* stores the document, sets ready and gives the signal does so on a live
\* handle, also after the caller's wait timed out and the call returned, and
\* a caller that takes the signal or reads ready and the document reads a
\* live handle
C31_HandleLivesWhileHeld ==
    \A r \in BagToSet(jobs) :
       r.handle # NoHandle =>
          /\ r.handle.alloc # r.handle.freed
          /\ r.handle.alloc <=> Holders(r) > 0
          /\ r.handle.alloc => r.handle.refs = Holders(r)
          /\ r.handle.freed => r.handle = FreedHandle
          /\ r.st \in {"deliver", "deliver_ready", "deliver_give"} => r.handle.alloc
          /\ (r.owner \in Callers /\ pc[r.owner] \in {"wait_take", "wait_check"}) => r.handle.alloc

\* C31: the caller's wait timed out and the call has returned to the
\* application; the worker is about to give the signal of the handle, which
\* it alone still holds, the document stored and ready set
C31_Witness ==
    \E r \in BagToSet(jobs) :
       /\ r.owner = "none" /\ r.st = "deliver_give"
       /\ r.handle.alloc /\ r.handle.refs = 1 /\ r.handle.ready /\ r.handle.doc.full

(* ---------------- init of an initialized engine ---------------- *)
\* caller c is in init, called on an initialized engine, past the deinit
\* that init runs first (part_001:88-90)
ReinitPastTeardown(c) ==
    call[c].op = "init" /\ call[c].wasInit /\ pc[c] \in {"init_body", "returned"}

\* C32: init called on an initialized engine first tears the old engine down
\* completely and only then installs the new config.  When init goes on after
\* its deinit, every job of the old engine has delivered its result, given
\* its slot back and been counted out, the old semaphore is deleted and the
\* engine is uninitialized; so when the re-init has returned true the new
\* config is in force, every one of its maxConcurrentRequests slots is free,
\* and no job of the old engine is left that could give to the new semaphore
C32_ReinitTearsDownFirst ==
    \A c \in Callers :
       /\ (call[c].op = "init" /\ call[c].wasInit /\ pc[c] = "init_body") =>
             /\ ~initialized
             /\ slotSemaphore = NullSem
             /\ activeTasks = 0
       /\ ReinitPastTeardown(c) =>
             \A r \in BagToSet(jobs) :
                r.took => (r.st \in {"exit", "exited", "deleted"} /\ r.gives = 1)
       /\ (ReinitPastTeardown(c) /\ pc[c] = "returned" /\ call[c].ret = "true") =>
             /\ initialized
             /\ config = call[c].cfg
             /\ slotSemaphore = SemCreateCounting(call[c].cfg.maxConcurrentRequests,
                                                  call[c].cfg.maxConcurrentRequests)
             /\ activeTasks = 0
       /\ (ReinitPastTeardown(c) /\ pc[c] = "returned" /\ call[c].ret = "false") =>
             ~initialized /\ slotSemaphore = NullSem

\* C32: a re-init has returned true; the task of a job of the old engine,
\* which gave its slot back to the old semaphore, has not ended yet
C32_Witness ==
    \E c \in Callers :
       /\ ReinitPastTeardown(c) /\ pc[c] = "returned" /\ call[c].ret = "true"
       /\ slotSemaphore.count = config.maxConcurrentRequests
       /\ \E r \in BagToSet(jobs) : r.st = "exit" /\ r.took /\ r.gives = 1

(* ---------------- the protocol options handed to the transport ---------------- *)
\* the timeouts given per call and in the config, in milliseconds: none, and
\* two that differ
TimeoutValues == {0, 5000, 15000}

\* the FetchRequestOptions the callers pass, as far as runJob reads them
RequestOptions ==
    [timeoutMs : TimeoutValues, allowRedirects : BOOLEAN, skipTlsCommonNameCheck : BOOLEAN]

\* the FetchConfig values the engine was initialized with, as far as runJob reads them
ProtocolConfigs ==
    [defaultTimeoutMs : TimeoutValues, followRedirects : BOOLEAN, skipTlsCommonNameCheck : BOOLEAN]

\* a request is submitted with its options to an engine with its config
InitOptions ==
    /\ initialized = FALSE
    /\ slotSemaphore = NullSem
    /\ activeTasks = 0
    /\ config = DefaultConfig
    /\ schedulerState = "running"
    /\ pc = [c \in Callers |-> "idle"]
    /\ call = [c \in Callers |-> NoCall]
    /\ jobs = EmptyBag
    /\ semFault = FALSE
    /\ deinited = FALSE
    /\ fetchJob = NoFetchJob
    /\ exchange = NoExchange
    /\ \E options \in RequestOptions, cfg \in ProtocolConfigs :
          client = [NoClient EXCEPT !.at = "submitted", !.url = <<"https", ":", "/", "/", "h">>,
                                    !.options = options, !.cfg = cfg]

SpecOptions == InitOptions /\ [][NextClient]_vars

\* C33: the per-call protocol options are merged with the config as follows:
\* the timeout the transport is given is the per-call timeoutMs when that is
\* non-zero and defaultTimeoutMs otherwise; redirects are followed (automatic
\* redirection not disabled) only when options.allowRedirects and
\* config.followRedirects are both true; the TLS common-name check is skipped
\* when the per-call flag or the config flag is set, and only then
C33_ProtocolOptionsMerged ==
    Configured =>
       /\ client.options.timeoutMs # 0 => client.transport.timeout_ms = client.options.timeoutMs
       /\ client.options.timeoutMs = 0 => client.transport.timeout_ms = client.cfg.defaultTimeoutMs
       /\ ~client.transport.disable_auto_redirect
             <=> (client.options.allowRedirects /\ client.cfg.followRedirects)
       /\ client.transport.skip_cert_common_name_check
             <=> (client.options.skipTlsCommonNameCheck \/ client.cfg.skipTlsCommonNameCheck)

\* C33: a request without a timeout of its own that allows redirects, on an
\* engine whose config does not follow them and skips the common-name check:
\* the transport has the default timeout, redirection disabled, the check skipped
C33_Witness ==
    /\ Configured
    /\ client.options.timeoutMs = 0 /\ client.cfg.defaultTimeoutMs = 5000
    /\ client.options.allowRedirects /\ ~client.cfg.followRedirects
    /\ ~client.options.skipTlsCommonNameCheck /\ client.cfg.skipTlsCommonNameCheck
    /\ client.transport =
          [timeout_ms |-> 5000, disable_auto_redirect |-> TRUE, skip_cert_common_name_check |-> TRUE]

(* ---------------- a submission that overlaps deinit ---------------- *)
\* two application threads: "app" calls init and deinit, "task" submits
\* requests at the same time; neither waits for the other
RaceThreads == {"app", "task"}

InitRace ==
    /\ fetchJob = NoFetchJob
    /\ exchange = NoExchange
    /\ client = NoClient
    /\ initialized = FALSE
    /\ slotSemaphore = NullSem
    /\ activeTasks = 0
    /\ config = DefaultConfig
    /\ schedulerState = "running"
    /\ pc = [c \in RaceThreads |-> "idle"]
    /\ call = [c \in RaceThreads |-> NoCall]
    /\ jobs = EmptyBag
    /\ semFault = FALSE
    /\ deinited = FALSE

\* the steps of the thread that calls init and deinit
RaceLifecycle ==
    \/ InitCall("app")
    \/ DeinitCall("app")
    \/ DeinitPoll("app")
    \/ DeinitStore("app")
    \/ DeinitDelete("app")
    \/ \E cfg \in Configs, semOk \in BOOLEAN : InitBody("app", cfg, semOk)
    \/ Return("app")

\* the steps of the thread that submits: asynchronous get with a callback
RaceSubmit ==
    \/ Call("task", "get", "none", TRUE, TRUE)
    \/ EnqCheck("task")
    \/ EnqTake("task")
    \/ EnqStack("task")
    \/ \E created \in BOOLEAN : EnqSpawn("task", created, FALSE)
    \/ EnqSpawnGive("task")
    \/ Return("task")

\* the steps of the workers of asynchronous jobs: runJob without the writes
\* to a SyncHandle, which these jobs do not have
RaceWorker ==
    \/ \E r \in Contexts, clientOk \in BOOLEAN, out \in TransportOutcomes : Exchange(r, clientOk, out)
    \/ \E r \in Contexts : Deliver(r)
    \/ \E r \in Contexts : ReleaseSlot(r)
    \/ \E r \in Contexts : DecActive(r)
    \/ \E r \in Contexts : TaskExit(r)

NextRace == RaceLifecycle \/ RaceSubmit \/ RaceWorker

SpecRace == InitRace /\ [][NextRace]_vars

\* the submitting thread is inside enqueueRequest, past the initialized test
\* which it passed, and has not returned
PastCheck(t) ==
    /\ call[t].op \in Ops /\ call[t].checked /\ call[t].initAtCheck
    /\ pc[t] \in {"enq_take", "enq_stack", "enq_spawn", "enq_spawn_give", "fault"}

\* the submission of thread t read _initialized as false
FoundUninitialized(t) == call[t].op \in Ops /\ call[t].checked /\ ~call[t].initAtCheck

\* C34 as stated: a submission that runs concurrently with deinit never
\* touches the admission semaphore after deinit deleted it: no take and no
\* give is ever applied to the deleted semaphore, because a submission that
\* got past the initialized test is counted as active before the drain loop
\* of deinit can see zero (so that once deinit is past its drain loop no
\* submission is left between its test and its count)
C34_NeverTouchesDeletedSemaphore ==
    /\ ~semFault
    /\ PastDrain("app") =>
          \A t \in RaceThreads : pc[t] \notin {"enq_take", "enq_stack"}

\* C34, what the code gives: only the initialized test protects a submission
\* that overlaps deinit.  A submission that reads _initialized as false, as
\* every one does that reaches its test after deinit has started, returns
\* false at once: it takes no slot, builds no job and is not counted.  A take
\* or give on the deleted semaphore happens to a submission only that had
\* read _initialized as true before deinit cleared it
C34_UninitializedTestProtects ==
    \A t \in RaceThreads :
       /\ FoundUninitialized(t) =>
             /\ pc[t] = "returned"
             /\ call[t].ret = "false"
             /\ \A r \in Mine(t) : r.st = "nojob" /\ ~r.took /\ r.gives = 0
       /\ pc[t] = "fault" => PastCheck(t) /\ semFault
       /\ semFault => \E u \in RaceThreads : pc[u] = "fault"
       /\ (pc[t] = "enq_check" /\ (InDeinit("app") \/ deinited)) => ~initialized

\* C34: while deinit polls for the running jobs, a submission of the other
\* thread has reached the initialized test and failed on it
C34_Witness ==
    /\ pc["app"] = "deinit_poll" /\ call["app"].wasInit /\ activeTasks > 0
    /\ pc["task"] = "returned" /\ FoundUninitialized("task") /\ call["task"].ret = "false"

(* ---------------- the active count and the concurrency limit ---------------- *)
\* the number of workers that have given their slot back (part_001:550-552)
\* and have not yet decremented _activeTasks (part_001:554)
Releasing == BagCardinality([r \in At("dec") |-> jobs[r]])

\* C35 as stated: the active-job counter _activeTasks never exceeds
\* maxConcurrentRequests in any reachable state, under any interleaving of
\* submissions with finishing workers
C35_ActiveAtMostN == activeTasks <= config.maxConcurrentRequests

\* C35, what the code gives: _activeTasks is the number of jobs between their
\* fetch_add and their fetch_sub; each of them holds an admission slot or is
\* a worker that has given its slot back and not yet decremented the count,
\* so the counter never exceeds maxConcurrentRequests plus the number of
\* such workers, and the counted jobs that hold a slot never exceed the limit
C35_ActiveAtMostNPlusReleasing ==
    /\ activeTasks = CountedJobs
    /\ \A r \in BagToSet(jobs) : Counted(r) => (HoldsSlot(r) \/ r.st = "dec")
    /\ activeTasks <= SlotLimit + Releasing
    /\ activeTasks - Releasing <= Holding

\* C35: every slot of the limit is held by a counted job while a worker that
\* gave its slot back is still counted: the counter is above the limit
C35_Witness ==
    /\ initialized
    /\ Releasing >= 1
    /\ Holding = config.maxConcurrentRequests
    /\ activeTasks = config.maxConcurrentRequests + Releasing

(* ---------------- every admitted job comes to its end ---------------- *)
\* a thread that is inside an engine call takes the next step of that call
\* (the application decides on entering a call and on what follows its return)
CallerGoesOn(c) ==
    \/ DeinitPoll(c) \/ DeinitStore(c) \/ DeinitDelete(c)
    \/ \E cfg \in Configs, semOk \in BOOLEAN : InitBody(c, cfg, semOk)
    \/ EnqCheck(c) \/ EnqTake(c) \/ EnqStack(c)
    \/ \E created \in BOOLEAN, waitForever \in BOOLEAN : EnqSpawn(c, created, waitForever)
    \/ EnqSpawnGive(c)
    \/ WaitTake(c) \/ WaitCheck(c)

\* the scheduler is fair to the workers and to the calling thread, and every
\* transport exchange and every callback returns (they are steps of Worker)
SpecLive == Spec /\ WF_vars(Worker) /\ \A c \in Callers : WF_vars(CallerGoesOn(c))

\* the application enters get / post / getStream
NewSubmission == \E c \in Callers : pc[c] = "idle" /\ pc'[c] # "idle" /\ call'[c].op \in Ops

\* no admitted job is under way: every job that took a slot has given it
\* back once, after its worker delivered the result (or after the job was
\* destroyed in the submit call), no job is counted, every slot is free
Quiescent ==
    /\ activeTasks = 0
    /\ Holding = 0
    /\ slotSemaphore # NullSem => slotSemaphore.count = config.maxConcurrentRequests
    /\ \A r \in BagToSet(jobs) :
          r.took => /\ r.gives = 1
                    /\ r.st \in {"exit", "exited", "deleted"}
                    /\ r.st # "deleted" => r.cbCalls = CallbackInvocations(r.hasCb)

\* a synchronous get / post of caller c waits for its result with portMAX_DELAY
WaitsForever(c) == pc[c] = "wait_take" /\ call[c].waitForever

\* C36: with every exchange and callback returning and a fair scheduler,
\* every admitted job eventually delivers its result and releases its slot:
\* once submissions stop, the engine comes to rest for good with every slot
\* free (the free-slot count back at N) and the active count at 0; a deinit
\* called by the application thread eventually leaves its drain loop, deletes
\* the semaphore and returns; and a synchronous get / post with an infinite
\* wait eventually returns, and what it returns is the real result
C36_JobsComeToTheirEnd ==
    /\ (<>[][~NewSubmission]_vars) => <>[]Quiescent
    /\ \A c \in Callers : InDeinit(c) ~> (~InDeinit(c) /\ slotSemaphore = NullSem)
    /\ \A c \in Callers : WaitsForever(c) ~> (Returned(c) /\ call[c].doc.full)

\* C36: a synchronous call has returned the real result and the engine has
\* come to rest: the task of its job has ended, the slot is free again, no
\* job is counted
C36_Witness ==
    /\ initialized /\ Quiescent
    /\ slotSemaphore.count = config.maxConcurrentRequests
    /\ \E c \in Callers :
          /\ Returned(c) /\ IsSync(call[c].op) /\ call[c].doc.full
          /\ \E r \in Mine(c) : r.st = "exited" /\ r.gives = 1

(* ---------------- the slot of a job whose result was returned ---------------- *)
\* the synchronous get / post of caller c has returned the real result of its job
ReturnedRealResult(c) == Returned(c) /\ IsSync(call[c].op) /\ call[c].doc.full

\* the completion signal of the handle of context r has been given
\* (part_001:595-597): it is pending, or the waiter has taken it
Signalled(r) == r.isSync /\ r.st \in {"release", "dec", "exit", "exited"}

\* C37 as stated: when a synchronous get / post returns the real result of
\* its job, that job's admission slot has already been released, so that
\* with maxConcurrentRequests = 1 and the zero-wait policy a synchronous
\* request that follows at once is admitted: no job whose completion signal
\* was given still holds a slot
C37_SlotFreeAtReturn ==
    /\ \A c \in Callers :
          ReturnedRealResult(c) => \A r \in Mine(c) : ~HoldsSlot(r) /\ r.gives = 1
    /\ \A r \in BagToSet(jobs) : Signalled(r) => ~HoldsSlot(r)

\* C37, what the code gives: the worker delivers first and releases
\* afterwards.  When a synchronous get / post has returned the real result,
\* its job is at or past the delivery; the job holds its slot while the
\* worker sets ready and gives the signal and until the worker's next
\* statement gives the slot back, and has given it back exactly once from
\* then on.  Until then a submission under the zero-wait policy with
\* maxConcurrentRequests = 1 finds no slot
C37_SlotReleasedAfterSignal ==
    /\ \A c \in Callers :
          ReturnedRealResult(c) =>
             /\ Cardinality(Mine(c)) = 1
             /\ \A r \in Mine(c) :
                   r.st \in {"deliver_give", "release", "dec", "exit", "exited"}
    /\ \A r \in BagToSet(jobs) :
          /\ r.st \in {"deliver_ready", "deliver_give", "release"} =>
                HoldsSlot(r) /\ slotSemaphore.count < config.maxConcurrentRequests
          /\ r.st \in {"dec", "exit", "exited"} => r.took /\ r.gives = 1

\* C37: with maxConcurrentRequests = 1 and the zero-wait policy, a
\* synchronous request was turned away for want of a slot: the slot is held
\* by the job of the synchronous request before it, whose caller has taken
\* the completion signal and returned with the result
C37_Witness ==
    /\ config.maxConcurrentRequests = 1 /\ config.slotAcquireTicks = 0
    /\ \E c \in Callers : RejectedForSlot(c) /\ IsSync(call[c].op)
    /\ \E r \in BagToSet(jobs) :
          /\ r.owner = "none" /\ r.isSync /\ r.st = "release"
          /\ r.handle.ready /\ r.handle.done = 0 /\ r.handle.doc.full
          /\ HoldsSlot(r)

====
